---------------------------- MODULE Spec2Model ----------------------------
(***************************************************************************)
(* Popup-template subsystem of the ORV character-sheet manager:            *)
(* item_popup.py and skill_popup.py (persistence layer and admin editor)   *)
(* and the part of main.py that hosts them.                                *)
(*                                                                         *)
(* The two template families keep separate tables (item_popup,             *)
(* skill_popup) that no operation shares, so a behaviour fixes one family  *)
(* in Init (variable fam) and models that family's table.                  *)
(***************************************************************************)
EXTENDS Integers, FiniteSets, Sequences, TLC

(***************************************************************************)
(* Bounds of the model.                                                    *)
(***************************************************************************)
MaxEnt == 2        \* target entities (items / skills) are 1..MaxEnt
MaxChar == 2       \* characters (the "scope", column target_user_id)
MaxId == 2         \* rows ever inserted in the family's table
MaxClock == 2      \* readings of the UTC clock are 1..MaxClock
MaxSpeed == 140    \* border speeds go up to MaxSpeed / 20 (7.0)
MaxLen == 3        \* typed texts have up to MaxLen characters
MaxLines == 40     \* long texts have up to MaxLines + 1 lines
MaxCalls == 2      \* bootstrap() is called up to MaxCalls times
MaxUses == 1       \* the number input of uses goes up to MaxUses

(***************************************************************************)
(* Values.                                                                 *)
(***************************************************************************)
NULL == 0          \* Python None / SQL NULL; real ids are AUTOINCREMENT >= 1

Fam == {"item", "skill"}
Ents == 1..MaxEnt
Chars == 1..MaxChar
KeyEnts == Ents \cup {NULL}
KeyChars == Chars \cup {NULL}
Titles == {"", "T"}             \* the mutable columns, see Fields
Times == 1..MaxClock

\* The arguments of upsert_popup that are written to the mutable columns.
\* title is kept; the other mutable columns (owner_user_id, icon, the
\* metadata strings, the long texts, the two border specs) are bound and
\* written exactly like title in both statements and are folded into it.
Fields == [title : Titles]

\* Columns of the table.  "descricao" stands for the columns that both
\* CREATE TABLE and desired_cols name; a store created by an older version
\* of the program (LegacyCols) lacks them.
BaseCols == {"id", "target_id", "target_user_id", "title"}
DesiredCols == {"descricao", "created_at", "updated_at"}
FullCols == BaseCols \cup DesiredCols
LegacyCols == BaseCols \cup {"created_at", "updated_at"}
NoTable == {}

VARIABLES
    fam,            \* the template family of this behaviour
    cols,           \* columns of the family's table; NoTable: no table yet
    store,          \* rows of the family's table
    nextId,         \* next AUTOINCREMENT id (ids are never reused)
    clock,          \* current reading of datetime.utcnow()
    bootstrapped,   \* skill_popup._BOOTSTRAPPED (unused by the item family)
    last,           \* the last call of the persistence layer and its result
    sess,           \* per session: the upsert_popup call it is running
    cid,            \* st.session_state["cid"], NULL when absent
    targets,        \* entities of the current character (inventory / skills)
    sel,            \* value of the editor's target selectbox
    form,           \* values of the editor's field widgets
    rendered,       \* editor widgets on the page: "none", "select", "all"
    run,            \* the last call of the editor function and what it did
    view,           \* the viewer's page: open popups and the cards drawn
    calc,           \* the last call of a pure function and its result
    sheet           \* the catalog of skills, the skills linked to the
                    \* characters with their uses, and the inventories

edVars == <<cid, targets, sel, form, rendered, run>>

rdVars == <<view, calc, sheet>>

vars == <<fam, cols, store, nextId, clock, bootstrapped, last, sess,
          cid, targets, sel, form, rendered, run, view, calc, sheet>>

(***************************************************************************)
(* Rows and SQL comparison.                                                *)
(***************************************************************************)
NoRow == [id |-> NULL, target_id |-> NULL, target_user_id |-> NULL,
          title |-> "", created_at |-> NULL, updated_at |-> NULL]

\* SQL "a IS b": NULL matches NULL only.
SqlIs(a, b) == a = b

\* SQL "a = b": never true when either side is NULL.
SqlEq(a, b) == a # NULL /\ b # NULL /\ a = b

\* fetchone(): the first row of the result, None (NoRow) when it is empty.
\* Rows with equal key come in rowid order.
FetchOne(S) ==
    IF S = {} THEN NoRow ELSE CHOOSE r \in S : \A q \in S : r.id <= q.id

\* UNIQUE(target_<entity>_id, target_user_id): SQLite treats NULLs as
\* distinct, so the constraint binds only keys with both parts non-NULL.
UniqueViolation(rows, t, u) ==
    \E r \in rows : SqlEq(r.target_id, t) /\ SqlEq(r.target_user_id, u)

\* The statements of upsert_popup and delete_popup need the table and every
\* column they name.
TableReady(c) == FullCols \subseteq c


(***************************************************************************)
(* ensureSchema: bootstrap() and the lazy _ensure_bootstrap().             *)
(***************************************************************************)
\* bootstrap(): CREATE TABLE IF NOT EXISTS with the full schema, then one
\* ALTER TABLE ADD COLUMN for every desired column the table lacks.
Bootstrap(c) == IF c = NoTable THEN FullCols ELSE c \cup DesiredCols

\* _ensure_bootstrap(): bootstrap() once per process, guarded by the global
\* flag.  Only skill_popup has it; item_popup's functions never bootstrap.
EnsureBootstrap(f, c, b) == IF f = "skill" /\ ~b THEN Bootstrap(c) ELSE c

EnsureFlag(f, b) == IF f = "skill" THEN TRUE ELSE b

(***************************************************************************)
(* upsert_popup, delete_popup.                                             *)
(***************************************************************************)
\* SELECT id FROM <table> WHERE target_<entity>_id IS ? AND target_user_id IS ?
SelectByKey(rows, t, u) ==
    {r \in rows : SqlIs(r.target_id, t) /\ SqlIs(r.target_user_id, u)}

\* UPDATE <table> SET owner_user_id=?, title=?, ..., updated_at=? WHERE id=?
UpdateRowMissingTitle(rows, id, f, now) ==
    {IF r.id = id THEN [r EXCEPT !.updated_at = now] ELSE r : r \in rows}

UpdateRowTouchesCreated(rows, id, f, now) ==
    {IF r.id = id
       THEN [r EXCEPT !.title = f.title, !.created_at = now,
                      !.updated_at = now]
       ELSE r : r \in rows}

UpdateRowWholeCharacter(rows, id, f, now) ==
    {IF \E q \in rows : q.id = id /\ q.target_user_id = r.target_user_id
       THEN [r EXCEPT !.title = f.title, !.updated_at = now]
       ELSE r : r \in rows}

UpdateRow(rows, id, f, now) ==
    {IF r.id = id
       THEN [r EXCEPT !.title = f.title, !.updated_at = now]
       ELSE r : r \in rows}

\* INSERT INTO <table>(owner_user_id, target_..., ..., created_at, updated_at)
NewRow(id, t, u, f, now) ==
    [id |-> id, target_id |-> t, target_user_id |-> u, title |-> f.title,
     created_at |-> now, updated_at |-> now]

\* The write half of upsert_popup, given the row its SELECT fetched:
\* UPDATE ... WHERE id = row["id"] when a row was fetched, INSERT otherwise.
\* An INSERT that breaks the UNIQUE constraint raises sqlite3.IntegrityError
\* and the "with conn" block rolls back.
UpsertWrite(rows, row, nid, t, u, f, now) ==
    IF row.id # NULL
      THEN [rows |-> UpdateRow(rows, row.id, f, now), ret |-> row.id,
            raised |-> FALSE, inserted |-> FALSE]
      ELSE IF UniqueViolation(rows, t, u)
        THEN [rows |-> rows, ret |-> NULL, raised |-> TRUE, inserted |-> FALSE]
        ELSE [rows |-> rows \cup {NewRow(nid, t, u, f, now)}, ret |-> nid,
              raised |-> FALSE, inserted |-> TRUE]

\* upsert_popup run alone: SELECT by natural key, then the write.  On a
\* table that lacks a column the statements name it raises
\* sqlite3.OperationalError.
UpsertSelectEq(c, rows, nid, t, u, f, now) ==
    IF ~TableReady(c)
      THEN [rows |-> rows, ret |-> NULL, raised |-> TRUE, inserted |-> FALSE]
      ELSE UpsertWrite(rows,
             FetchOne({r \in rows : SqlEq(r.target_id, t)
                                    /\ SqlEq(r.target_user_id, u)}),
             nid, t, u, f, now)

UpsertPopup(c, rows, nid, t, u, f, now) ==
    IF ~TableReady(c)
      THEN [rows |-> rows, ret |-> NULL, raised |-> TRUE, inserted |-> FALSE]
      ELSE UpsertWrite(rows, FetchOne(SelectByKey(rows, t, u)), nid, t, u, f, now)

\* DELETE FROM <table> WHERE id=?
DeletePopupUpTo(rows, id) == {r \in rows : r.id > id}

DeletePopup(rows, id) == {r \in rows : r.id # id}

(***************************************************************************)
(* get_popup_for.                                                          *)
(***************************************************************************)
\* SELECT * ... WHERE target_<entity>_id <cmp> AND target_user_id <cmp> LIMIT 1
\* for the four shapes get_popup_for uses: "=?" on a non-NULL argument and
\* "IS NULL".
SelectExact(rows, t, u) ==
    {r \in rows : SqlEq(r.target_id, t) /\ SqlEq(r.target_user_id, u)}

SelectEntOnly(rows, t) ==
    {r \in rows : SqlEq(r.target_id, t) /\ r.target_user_id = NULL}

SelectCharOnly(rows, u) ==
    {r \in rows : r.target_id = NULL /\ SqlEq(r.target_user_id, u)}

SelectGlobal(rows) ==
    {r \in rows : r.target_id = NULL /\ r.target_user_id = NULL}

\* item_popup.get_popup_for: (item+user) > (item) > (user) > global.
ItemGetPopupForCharFirst(rows, t, u) ==
    IF t # NULL /\ u # NULL /\ SelectExact(rows, t, u) # {}
      THEN FetchOne(SelectExact(rows, t, u))
    ELSE IF u # NULL /\ SelectCharOnly(rows, u) # {}
      THEN FetchOne(SelectCharOnly(rows, u))
    ELSE IF t # NULL /\ SelectEntOnly(rows, t) # {}
      THEN FetchOne(SelectEntOnly(rows, t))
    ELSE FetchOne(SelectGlobal(rows))

ItemGetPopupFor(rows, t, u) ==
    IF t # NULL /\ u # NULL /\ SelectExact(rows, t, u) # {}
      THEN FetchOne(SelectExact(rows, t, u))
    ELSE IF t # NULL /\ SelectEntOnly(rows, t) # {}
      THEN FetchOne(SelectEntOnly(rows, t))
    ELSE IF u # NULL /\ SelectCharOnly(rows, u) # {}
      THEN FetchOne(SelectCharOnly(rows, u))
    ELSE FetchOne(SelectGlobal(rows))

\* skill_popup.get_popup_for: None when either argument is None, else the
\* row of exactly (skill, user).
SkillGetPopupForFallback(rows, t, u) == ItemGetPopupFor(rows, t, u)

SkillGetPopupFor(rows, t, u) ==
    IF t = NULL \/ u = NULL THEN NoRow ELSE FetchOne(SelectExact(rows, t, u))

GetPopupFor(f, rows, t, u) ==
    IF f = "item" THEN ItemGetPopupFor(rows, t, u)
                  ELSE SkillGetPopupFor(rows, t, u)

(***************************************************************************)
(* The persistence layer called one call at a time.                        *)
(***************************************************************************)
DefaultFields == [title |-> ""]

\* What a call record keeps of the call before it, when both are upserts
\* of the same natural key and the earlier one returned an id.
NoFirst == [ret |-> NULL, f |-> DefaultFields, now |-> NULL,
            inserted |-> FALSE]

NoCall == [op |-> "none", t |-> NULL, u |-> NULL, f |-> DefaultFields,
           id |-> NULL, now |-> NULL, ret |-> NULL, row |-> NoRow,
           raised |-> FALSE, inserted |-> FALSE, first |-> NoFirst]

FirstOf(call, t, u) ==
    IF call.op = "upsert" /\ ~call.raised /\ call.t = t /\ call.u = u
      THEN [ret |-> call.ret, f |-> call.f, now |-> call.now,
            inserted |-> call.inserted]
      ELSE NoFirst

InitStore ==
    /\ fam \in Fam
    /\ cols \in {NoTable, LegacyCols, FullCols}
    /\ store = {}
    /\ nextId = 1
    /\ clock = 1
    /\ bootstrapped = FALSE

\* Streamlit runs every browser session in a thread of its own.
Sessions == {1, 2}

\* A session's upsert_popup call: where it is (idle, selected: between its
\* SELECT and its write, done, raised), its arguments, the clock reading
\* and the row its SELECT fetched, and the id it returned.
IdleSession == [pc |-> "idle", t |-> NULL, u |-> NULL, f |-> DefaultFields,
                now |-> NULL, row |-> NoRow, ret |-> NULL]

\* Interactions of the user with the page; each starts one run of the
\* script.  x: the option picked, v: the field values typed, ents: the
\* entities of the character picked in the character selector.
Acts ==
    {[kind |-> k, x |-> NULL, v |-> DefaultFields, ents |-> {}] :
        k \in {"render", "save", "delete"}}
    \cup {[kind |-> "select", x |-> e, v |-> DefaultFields, ents |-> {}] :
             e \in KeyEnts}
    \cup {[kind |-> "field", x |-> NULL, v |-> f, ents |-> {}] :
             f \in Fields}
    \cup {[kind |-> "char", x |-> c, v |-> DefaultFields, ents |-> T] :
             c \in Chars, T \in SUBSET Ents}

\* current_user: None, a logged-in user who is no admin, an admin.
CurrentUsers == {"none", "viewer", "admin"}

\* What the last run of the editor did: the user it was called for, the
\* button that fired, the messages shown, the kinds of statement sent to the
\* store, the controller's state at the end, whether an exception left the
\* function.
NoRun == [cu |-> "none", pressed |-> "none", msgs |-> {}, work |-> {},
          state |-> "Idle", propagated |-> FALSE]

\* The viewer's page before the first run: no popup open (the open flags of
\* st.session_state, one per target and character), nothing drawn.
NoView == [open |-> {}, cards |-> <<>>, failed |-> {}, msgs |-> {},
           propagated |-> FALSE]

\* No pure function called yet.
NoCalc == [op |-> "none"]

\* No skill in the catalog, none linked to a character, empty inventories.
NoSheet == [skills |-> {}, links |-> {}, inv |-> {}]

InitRead ==
    /\ view = NoView
    /\ sheet = NoSheet
    /\ calc = NoCalc

InitEditor ==
    /\ cid = NULL
    /\ targets = {}
    /\ sel = NULL
    /\ form = DefaultFields
    /\ rendered = "none"
    /\ run = NoRun

Init ==
    /\ InitStore
    /\ last = NoCall
    /\ sess = [s \in Sessions |-> IdleSession]
    /\ InitEditor
    /\ InitRead

\* The UTC clock read by _now_iso() moves on between some calls.
Tick ==
    /\ clock < MaxClock
    /\ clock' = clock + 1
    /\ UNCHANGED <<fam, cols, store, nextId, bootstrapped, last, sess,
                   edVars, rdVars>>

\* main(): <module>.bootstrap() at the start of every run of the script.
CallBootstrap ==
    /\ cols' = Bootstrap(cols)
    /\ cols' # cols
    /\ UNCHANGED <<fam, store, nextId, clock, bootstrapped, last, sess,
                   edVars, rdVars>>

CallUpsert(t, u, f) ==
    LET c1 == EnsureBootstrap(fam, cols, bootstrapped)
        res == UpsertPopup(c1, store, nextId, t, u, f, clock)
    IN  /\ res.inserted => nextId <= MaxId
        /\ cols' = c1
        /\ bootstrapped' = EnsureFlag(fam, bootstrapped)
        /\ store' = res.rows
        /\ nextId' = IF res.inserted THEN nextId + 1 ELSE nextId
        /\ last' = [NoCall EXCEPT !.op = "upsert", !.t = t, !.u = u, !.f = f,
                                  !.now = clock, !.ret = res.ret,
                                  !.raised = res.raised,
                                  !.inserted = res.inserted,
                                  !.first = FirstOf(last, t, u)]
        /\ UNCHANGED <<fam, clock, sess, edVars, rdVars>>

CallDelete(id) ==
    LET c1 == EnsureBootstrap(fam, cols, bootstrapped)
    IN  /\ cols' = c1
        /\ bootstrapped' = EnsureFlag(fam, bootstrapped)
        /\ store' = DeletePopup(store, id)
        /\ last' = [NoCall EXCEPT !.op = "delete", !.id = id,
                                  !.raised = (c1 = NoTable)]
        /\ UNCHANGED <<fam, nextId, clock, sess, edVars, rdVars>>

CallGet(t, u) ==
    LET c1 == EnsureBootstrap(fam, cols, bootstrapped)
    IN  /\ cols' = c1
        /\ bootstrapped' = EnsureFlag(fam, bootstrapped)
        /\ last' = [NoCall EXCEPT !.op = "get", !.t = t, !.u = u,
                                  !.row = IF c1 = NoTable THEN NoRow
                                          ELSE GetPopupFor(fam, store, t, u),
                                  !.raised = (c1 = NoTable)]
        /\ UNCHANGED <<fam, store, nextId, clock, sess, edVars, rdVars>>

Next ==
    \/ Tick
    \/ CallBootstrap
    \/ \E t \in KeyEnts, u \in KeyChars, f \in Fields : CallUpsert(t, u, f)
    \/ \E id \in 1..MaxId : CallDelete(id)
    \/ \E t \in KeyEnts, u \in KeyChars : CallGet(t, u)

Spec == Init /\ [][Next]_vars

(***************************************************************************)
(* upsert_popup called by two sessions at once.  The SELECT runs outside   *)
(* any transaction (sqlite3 opens one only before INSERT/UPDATE/DELETE),   *)
(* so another session's statements can run between a call's SELECT and its *)
(* write; the write and its commit are one step.  main() has bootstrapped  *)
(* the table before a session can reach the editor's save action.          *)
(***************************************************************************)
InitConc ==
    /\ fam \in Fam
    /\ cols = FullCols
    /\ store = {}
    /\ nextId = 1
    /\ clock = 1
    /\ bootstrapped = FALSE
    /\ last = NoCall
    /\ sess = [s \in Sessions |-> IdleSession]
    /\ InitEditor
    /\ InitRead

\* _ensure_bootstrap(), now = _now_iso(), SELECT id ... ; row = fetchone()
UpsertBegin(s, t, u, f) ==
    /\ sess[s].pc = "idle"
    /\ cols' = EnsureBootstrap(fam, cols, bootstrapped)
    /\ bootstrapped' = EnsureFlag(fam, bootstrapped)
    /\ sess' = [sess EXCEPT ![s] =
                  [pc |-> "selected", t |-> t, u |-> u, f |-> f,
                   now |-> clock, row |-> FetchOne(SelectByKey(store, t, u)),
                   ret |-> NULL]]
    /\ UNCHANGED <<fam, store, nextId, clock, last, edVars, rdVars>>

\* if row: UPDATE ... WHERE id=row["id"]  else: INSERT ...; commit or, on an
\* exception, roll back and raise.
UpsertFinish(s) ==
    LET c == sess[s]
        res == UpsertWrite(store, c.row, nextId, c.t, c.u, c.f, c.now)
    IN  /\ c.pc = "selected"
        /\ res.inserted => nextId <= MaxId
        /\ store' = res.rows
        /\ nextId' = IF res.inserted THEN nextId + 1 ELSE nextId
        /\ sess' = [sess EXCEPT ![s].pc = IF res.raised THEN "raised" ELSE "done",
                                ![s].ret = res.ret]
        /\ UNCHANGED <<fam, cols, clock, bootstrapped, last, edVars, rdVars>>

\* The caller goes on (the editor's save handler reports the outcome) and
\* the session can call again.
UpsertReturn(s) ==
    /\ sess[s].pc \in {"done", "raised"}
    /\ sess' = [sess EXCEPT ![s] = IdleSession]
    /\ UNCHANGED <<fam, cols, store, nextId, clock, bootstrapped, last,
                   edVars, rdVars>>

\* The sessions save templates of one entity and one character, with and
\* without the "any" (NULL) choice; the clock plays no part and stands still.
NextConc ==
    \/ \E s \in Sessions, t \in {NULL, 1}, u \in {NULL, 1}, f \in Fields :
          UpsertBegin(s, t, u, f)
    \/ \E s \in Sessions : UpsertFinish(s)
    \/ \E s \in Sessions : UpsertReturn(s)

SpecConc == InitConc /\ [][NextConc]_vars

(***************************************************************************)
(* The admin editor: sidebar_item_popup_editor, sidebar_skill_popup_editor *)
(* and main(), which hosts them.  Streamlit runs the script from the top   *)
(* on every interaction, so one action is one call of the editor function. *)
(***************************************************************************)
\* if not current_user or not current_user.get("is_admin"): return
IsAdminAlways(cu) == TRUE

IsAdmin(cu) == cu = "admin"

\* The outermost "try: ... except Exception:" of the editor function: the
\* exception is shown in the sidebar with its traceback (printed when even
\* that fails) and the function returns.
OuterCatchInnerOnly(r) == [r EXCEPT !.propagated = TRUE]

OuterCatch(r) ==
    [r EXCEPT !.msgs = {"editor_error", "traceback"}, !.state = "Idle"]

\* except Exception: st.error("Erro ao salvar popup ..."); st.code(traceback)
SaveFailureSilent == {}

SaveFailureReport == {"save_error", "traceback"}

\* except Exception: st.error("Erro ao excluir popup ..."); st.code(traceback)
DeleteFailureReport == {"delete_error", "traceback"}

\* The session state an editor call starts from.  sidebar_char_selector has
\* run before it: when the user picked another character, cid is that one,
\* the entities are that character's, and the editor's widgets, whose keys
\* hold cid, start afresh.
Page(act) ==
    IF act.kind = "char"
      THEN [cid |-> act.x, targets |-> act.ents, rendered |-> "none",
            sel |-> NULL, form |-> DefaultFields]
      ELSE [cid |-> cid, targets |-> targets, rendered |-> rendered,
            sel |-> sel, form |-> form]

\* The options of the target selectbox: the current character's entities,
\* in the item editor after the entry "any item" (None).
Options(w) == IF fam = "item" THEN w.targets \cup {NULL} ELSE w.targets

\* index=0: "any item" in the item editor, the first skill in the other.
DefaultSel(w) ==
    IF fam = "item" \/ w.targets = {} THEN NULL
    ELSE CHOOSE e \in w.targets : \A q \in w.targets : e <= q

\* The selectbox's value in this run.
CurSel(w, act) ==
    IF act.kind = "select" THEN act.x
    ELSE IF w.rendered # "none" /\ w.sel \in Options(w) THEN w.sel
    ELSE DefaultSel(w)

\* value=row_field(existing, "title", ""), and so for every field widget.
FormFrom(existing) == [title |-> existing.title]

\* The values of the field widgets in this run.  The item editor keys its
\* widgets by (cid, selected item): they keep what was typed while the same
\* target stays selected.  The skill editor's widgets have no key, Streamlit
\* identifies them by label and default value: they keep their value or
\* start from the stored template again (keep).
CurForm(w, act, s1, existing, keep) ==
    IF act.kind = "field" THEN act.v
    ELSE IF w.rendered = "all" /\ (IF fam = "item" THEN s1 = w.sel ELSE keep)
      THEN w.form
    ELSE FormFrom(existing)

\* The button whose call returns True in this run.  The item editor keys
\* its buttons by (cid, selected item).
Pressed(w, act, s1) ==
    IF act.kind \in {"save", "delete"} /\ (fam = "skill" \/ s1 = w.sel)
      THEN act.kind ELSE "none"

\* "Excluir Popup": delete_popup(existing["id"]) when a template was loaded,
\* a warning otherwise.
EditorDeleteWholeCharacter(r, ex, fault) ==
    IF ex.id # NULL
      THEN [r EXCEPT !.rows = {q \in r.rows :
                                 q.target_user_id # ex.target_user_id},
                     !.msgs = {"deleted"}, !.work = r.work \cup {"write"}]
      ELSE [r EXCEPT !.msgs = {"nothing_to_delete"}]

EditorDelete(r, ex, fault) ==
    IF ex.id # NULL
      THEN IF fault = "delete"
             THEN [r EXCEPT !.msgs = DeleteFailureReport,
                            !.work = r.work \cup {"write"}]
             ELSE [r EXCEPT !.rows = DeletePopup(r.rows, ex.id),
                            !.msgs = {"deleted"},
                            !.work = r.work \cup {"write"}]
      ELSE [r EXCEPT !.msgs = {"nothing_to_delete"}]

\* "Salvar Popup": upsert_popup(current_user["id"], sel, cid, fields...),
\* then st.success, or the failure report.
EditorSave(r, s1, u, f1, fault) ==
    LET res == IF fault = "save"
                 THEN [rows |-> r.rows, ret |-> NULL, raised |-> TRUE,
                       inserted |-> FALSE]
                 ELSE UpsertPopup(r.cols, r.rows, r.nid, s1, u, f1, clock)
    IN  [r EXCEPT !.rows = res.rows,
                  !.nid = IF res.inserted THEN r.nid + 1 ELSE r.nid,
                  !.msgs = IF res.raised THEN SaveFailureReport ELSE {"saved"},
                  !.work = r.work \cup {"write"}]

\* The part of a run that follows the field widgets: the two previews, then
\* the save and delete buttons.  A field change only redraws the previews.
EditorActionsAutosave(r, act, s1, u, f1, ex, fault) ==
    IF act.kind = "field" THEN EditorSave(r, s1, u, f1, fault)
    ELSE IF r.pressed = "save" THEN EditorSave(r, s1, u, f1, fault)
    ELSE IF r.pressed = "delete" THEN EditorDelete(r, ex, fault)
    ELSE r

EditorActions(r, act, s1, u, f1, ex, fault) ==
    IF r.pressed = "save" THEN EditorSave(r, s1, u, f1, fault)
    ELSE IF r.pressed = "delete" THEN EditorDelete(r, ex, fault)
    ELSE r

\* One call of the editor function on a table with columns c0, from the
\* session state w.  fault names the statement of this run that raises, if
\* any ("none": only what the store itself refuses raises).
EditorBody(c0, w, cu, act, fault, keep) ==
    LET c1 == EnsureBootstrap(fam, c0, bootstrapped)
        w0 == IF fam = "skill" /\ ~bootstrapped THEN {"schema"} ELSE {}
        r0 == [cols |-> c1, boot |-> EnsureFlag(fam, bootstrapped),
               rows |-> store, nid |-> nextId, sel |-> NULL,
               form |-> DefaultFields, rendered |-> "none", msgs |-> {},
               work |-> w0, state |-> "Idle", pressed |-> "none",
               propagated |-> FALSE]
        s1 == CurSel(w, act)
        ex == FetchOne(SelectByKey(store, s1, w.cid))
        f1 == CurForm(w, act, s1, ex, keep)
        r1 == [r0 EXCEPT !.work = w0 \cup {"read"}]
        r2 == [r1 EXCEPT !.sel = s1, !.rendered = "select"]
        r3 == [r2 EXCEPT !.form = f1, !.rendered = "all",
                         !.state = IF act.kind = "field" THEN "Editing"
                                   ELSE "TargetSelected",
                         !.pressed = Pressed(w, act, s1)]
    IN  IF ~IsAdmin(cu) THEN r0
        ELSE IF fault = "session" THEN OuterCatch(r0)
        ELSE IF w.cid = NULL THEN [r0 EXCEPT !.msgs = {"selection_required"}]
        ELSE IF fault = "enumerate" \/ w.targets = {}
          THEN [r1 EXCEPT !.msgs = {"no_targets"}]
        ELSE IF fault = "load" \/ c1 = NoTable THEN OuterCatch(r2)
        ELSE IF fault = "preview"
          THEN OuterCatch([r3 EXCEPT !.pressed = "none"])
        ELSE EditorActions(r3, act, s1, w.cid, f1, ex, fault)

\* The statements of a run that can be made to raise; a run for a user who
\* is no admin executes none of them.
Faults(cu, act) ==
    IF cu # "admin" THEN {"none"}
    ELSE {"none", "session", "enumerate", "load", "preview"}
             \cup ({act.kind} \cap {"save", "delete"})

\* Whether the skill editor's keyless field widgets, when the last run drew
\* them and this run does not set them, keep their value.
Keeps(act) ==
    IF fam = "skill" /\ rendered = "all" /\ act.kind \notin {"field", "char"}
      THEN BOOLEAN ELSE {TRUE}

\* The user can only work a widget that the last run put on the page.
CanDo(act) ==
    CASE act.kind = "render" -> TRUE
      [] act.kind = "char" -> act.x # cid
      [] act.kind = "select" ->
            rendered # "none" /\ act.x \in Options(Page(act))
      [] OTHER -> rendered = "all"

\* The effect of a call of the editor function on the state.
EditorApply(r, w, cu) ==
    /\ r.nid <= MaxId + 1
    /\ cols' = r.cols
    /\ bootstrapped' = r.boot
    /\ store' = r.rows
    /\ nextId' = r.nid
    /\ cid' = w.cid
    /\ targets' = w.targets
    /\ sel' = r.sel
    /\ form' = r.form
    /\ rendered' = r.rendered
    /\ run' = [cu |-> cu, pressed |-> r.pressed, msgs |-> r.msgs,
               work |-> r.work, state |-> r.state,
               propagated |-> r.propagated]
    /\ UNCHANGED <<fam, clock, last, sess, rdVars>>

\* The editor function called with any current_user, whatever the session
\* holds.
EditorCall(cu, act, fault, keep) ==
    /\ CanDo(act)
    /\ \E r \in {EditorBody(cols, Page(act), cu, act, fault, keep)} :
          EditorApply(r, Page(act), cu)

\* One run of main() with a character selected: bootstrap of the feature
\* modules, then, for an admin only, the editor.
MainRun(cu, act, fault, keep) ==
    /\ cu \in {"viewer", "admin"}
    /\ Page(act).cid # NULL
    /\ CanDo(act)
    /\ IF cu = "admin"
         THEN \E r \in {EditorBody(Bootstrap(cols), Page(act), cu, act,
                                   fault, keep)} :
                 EditorApply(r, Page(act), cu)
         ELSE /\ cols' = Bootstrap(cols)
              /\ cid' = Page(act).cid
              /\ targets' = Page(act).targets
              /\ rendered' = "none"
              /\ sel' = NULL
              /\ form' = DefaultFields
              /\ run' = [NoRun EXCEPT !.cu = cu]
              /\ UNCHANGED <<fam, store, nextId, clock, bootstrapped, last,
                             sess, rdVars>>

\* set_inv_qty, link_skill_to_char, unlink_skill_from_char (any session):
\* the current character gains or loses an entity.
SetTargets(T) ==
    /\ cid # NULL
    /\ T # targets
    /\ \E e \in Ents : T = targets \cup {e} \/ T = targets \ {e}
    /\ targets' = T
    /\ UNCHANGED <<fam, cols, store, nextId, clock, bootstrapped, last, sess,
                   cid, sel, form, rendered, run, rdVars>>

NextEditor ==
    \/ \E T \in SUBSET Ents : SetTargets(T)
    \/ \E cu \in CurrentUsers, act \in Acts :
          \E fault \in Faults(cu, act), keep \in Keeps(act) :
              EditorCall(cu, act, fault, keep)
    \/ \E cu \in CurrentUsers, act \in Acts :
          \E fault \in Faults(cu, act), keep \in Keeps(act) :
              MainRun(cu, act, fault, keep)

SpecEditor == Init /\ [][NextEditor]_vars

(***************************************************************************)
(* The read path: render_item_button / render_skill_button, called by      *)
(* main() for every item of the inventory and every skill of the current   *)
(* character.                                                              *)
(***************************************************************************)
\* Catalog rows (item_row, skill_row) carry the entity's name and its
\* description, which may be empty.
EntName(e) == <<"N1", "N2", "N3", "N4">>[e]

\* Entity 1 has no description in the catalog, the others have one.
EntDesc(e) == IF e = 1 THEN "" ELSE "D"

\* st.write(item_desc or "_(sem descrição)_")
NoDescription == "_(sem descricao)_"

DigitChar(d) == <<"0", "1", "2", "3", "4", "5", "6", "7", "8", "9">>[d + 1]

\* str(n) of a natural number, as its sequence of characters.
RECURSIVE Str(_)
Str(n) == IF n < 10 THEN <<DigitChar(n)>>
          ELSE Str(n \div 10) \o <<DigitChar(n % 10)>>

\* uid = f"{row_field(popup_row, 'id', 'x')}_{character_id}"
Uid(row, e, c) == Str(row.id) \o <<"_">> \o Str(c)

\* cls = f"{prefix}_border_{uid}"
ClassName(prefix, uid) == <<prefix, "_border_">> \o uid

\* @keyframes flow_{uid}, pulse_border_{uid}, changing_border_{uid}
KeyframesName(kind, uid) == <<kind, "_">> \o uid

\* What a lens button leaves on the page; failed: the buttons whose
\* rendering raised in the run.
ClosedCard == [kind |-> "closed", row |-> NULL, heading |-> "", body |-> "",
               uid |-> <<>>, cls |-> {}]

\* else: with safe_modal(name): st.markdown(...); st.write(desc or "...")
PlainCardNoText(e, desc) ==
    [ClosedCard EXCEPT !.kind = "plain", !.heading = EntName(e)]

PlainCard(e, desc) ==
    [ClosedCard EXCEPT !.kind = "plain", !.heading = EntName(e),
                       !.body = IF desc = "" THEN NoDescription ELSE desc]

\* _render_item_template_popup / _render_skill_template_popup, as far as the
\* stored row of this model goes: title, instance id, border classes.
TemplateCard(row, e, desc, c) ==
    [kind |-> "card", row |-> row.id,
     heading |-> IF row.title # "" THEN row.title ELSE EntName(e),
     body |-> desc,
     uid |-> Uid(row, e, c),
     cls |-> {ClassName("card", Uid(row, e, c)),
              ClassName("img", Uid(row, e, c))}]

\* The statement of a run that is made to raise: the template lookup or the
\* card composition of the popup of entity "at".
NoFault == [at |-> NULL, stage |-> "none"]

ViewFaults ==
    {NoFault} \cup [at : Ents, stage : {"lookup", "compose"}]

\* if st.session_state.get(open_key): popup = get_popup_for(...); if popup:
\* render the template's card, else the plain catalog description.
RenderButton(e, c, desc, isOpen, fault) ==
    LET row == GetPopupFor(fam, store, e, c)
    IN  IF ~isOpen THEN [card |-> ClosedCard, raised |-> FALSE]
        ELSE IF fault.at = e /\ fault.stage = "lookup"
          THEN [card |-> ClosedCard, raised |-> TRUE]
        ELSE IF row = NoRow
          THEN [card |-> PlainCard(e, desc), raised |-> FALSE]
        ELSE IF fault.at = e /\ fault.stage = "compose"
          THEN [card |-> ClosedCard, raised |-> TRUE]
        ELSE [card |-> TemplateCard(row, e, desc, c), raised |-> FALSE]

\* What the caller in main() makes of a button whose rendering raised.
\* section_inventory: except Exception: st.error("Erro ao renderizar popup
\* de item ...").  render_skill_row has no handler: the exception leaves
\* section_skills and main(), and nothing after the button is drawn.
FailedCard == [ClosedCard EXCEPT !.kind = "failed"]

MissingCard == [ClosedCard EXCEPT !.kind = "missing"]

\* The entities of this run whose button is reached: in the skill family
\* those up to the first one whose rendering raises.
Reached(T, raisedAt) ==
    IF fam = "skill" /\ raisedAt # NULL THEN {e \in T : e <= raisedAt} ELSE T

\* One run of main() for a viewer looking at character c, whose entities
\* are T; click is the lens button pressed, if any (one that the last run
\* drew).
ViewRun(c, T, click, fault) ==
    LET reachedIf(open1) ==
            {e \in T : RenderButton(e, c, EntDesc(e), <<e, c>> \in open1,
                                    fault).raised}
        toggled == IF click = NULL THEN view.open
                   ELSE IF <<click, c>> \in view.open
                     THEN view.open \ {<<click, c>>}
                     ELSE view.open \cup {<<click, c>>}
        \* the button that raises, on the way to the pressed one or on it
        pre == reachedIf(view.open) \cap {e \in T : click = NULL \/ e < click}
        raisedSet == IF fam = "skill" /\ pre # {} THEN pre
                     ELSE reachedIf(toggled)
        raisedAt == IF raisedSet = {} THEN NULL
                    ELSE CHOOSE e \in raisedSet : \A q \in raisedSet : e <= q
        open1 == IF fam = "skill" /\ pre # {} THEN view.open ELSE toggled
        card(e) == LET r == RenderButton(e, c, EntDesc(e),
                                         <<e, c>> \in open1, fault)
                   IN  IF e \notin Reached(T, raisedAt) THEN MissingCard
                       ELSE IF r.raised
                         THEN IF fam = "skill" THEN MissingCard
                              ELSE FailedCard
                       ELSE r.card
    IN  /\ click # NULL =>
              /\ c = cid
              /\ click \in T \cap targets
              /\ click \in DOMAIN view.cards
              /\ view.cards[click].kind # "missing"
        /\ cid' = c
        /\ targets' = T
        /\ cols' = Bootstrap(cols)
        /\ bootstrapped' = EnsureFlag(fam, bootstrapped)
        /\ view' = [open |-> open1,
                    cards |-> [e \in T |-> card(e)],
                    failed |-> IF raisedAt = NULL THEN {} ELSE {raisedAt},
                    msgs |-> IF fam = "item" /\ raisedAt # NULL
                               THEN {"render_error"} ELSE {},
                    propagated |-> (fam = "skill" /\ raisedAt # NULL)]
        /\ UNCHANGED <<fam, store, nextId, clock, last, sess, sel, form,
                       rendered, run, calc, sheet>>

\* The tables a viewer can meet: up to MaxId templates with ids of their
\* own, one per natural key, as sequential upserts and deletes leave them.
ViewStores ==
    UNION {{{NewRow(i, k[i][1], k[i][2], [title |-> "T"], 1) : i \in I} :
               k \in {g \in [I -> KeyEnts \X KeyChars] :
                         \A i, j \in I : i # j => g[i] # g[j]}} :
           I \in SUBSET (1..MaxId)}

InitView ==
    /\ fam \in Fam
    /\ cols = FullCols
    /\ store \in ViewStores
    /\ nextId = MaxId + 1
    /\ clock = 1
    /\ bootstrapped = FALSE
    /\ last = NoCall
    /\ sess = [s \in Sessions |-> IdleSession]
    /\ InitEditor
    /\ InitRead

NextView ==
    \E c \in Chars, T \in SUBSET Ents, click \in KeyEnts,
       fault \in ViewFaults : ViewRun(c, T, click, fault)

SpecView == InitView /\ [][NextView]_vars

(***************************************************************************)
(* The border style compiler, _css_for_border, of both modules.  Speeds    *)
(* and durations are exact fractions <<numerator, denominator>> with a     *)
(* positive denominator; colours and ids are sequences of characters.      *)
(***************************************************************************)
RatLess(a, b) == a[1] * b[2] < b[1] * a[2]

RatEq(a, b) == a[1] * b[2] = b[1] * a[2]

\* Python's max(a, b): b when b > a, else a.
RatMax(a, b) == IF RatLess(a, b) THEN b ELSE a

\* a / b for b # 0, written with a positive denominator.
RatDiv(a, b) ==
    IF b[1] > 0 THEN <<a[1] * b[2], a[2] * b[1]>>
    ELSE <<(0 - a[1]) * b[2], (0 - a[2]) * b[1]>>

RatTwice(a) == <<2 * a[1], a[2]>>

\* The numerator of the formulas "dur = max(0.6, base / ...)".
DurationBase(btype) ==
    CASE btype = "flow" -> 4
      [] btype = "pulse" -> 2
      [] btype = "changing" -> 3

\* dur = max(0.6, base / float(max(0.1, speed))); raised: ZeroDivisionError.
DurationUnclamped(btype, speed) ==
    IF speed[1] = 0 THEN [raised |-> TRUE, dur |-> <<0, 1>>]
    ELSE [raised |-> FALSE,
          dur |-> RatMax(<<3, 5>>,
                         RatDiv(<<DurationBase(btype), 1>>, speed))]

DurationIgnoresSpeed(btype, speed) ==
    [raised |-> FALSE,
     dur |-> RatMax(<<3, 5>>, <<DurationBase(btype), 1>>)]

Duration(btype, speed) ==
    LET m == RatMax(<<1, 10>>, speed)
    IN  IF m[1] = 0 THEN [raised |-> TRUE, dur |-> <<0, 1>>]
        ELSE [raised |-> FALSE,
              dur |-> RatMax(<<3, 5>>,
                             RatDiv(<<DurationBase(btype), 1>>, m))]

SafeKeepsQuotes(c) == c

\* safe = lambda s: s.replace('"', "'")
Safe(c) == [i \in DOMAIN c |-> IF c[i] = "\"" THEN "'" ELSE c[i]]

\* One CSS declaration "prop: val;".
Decl(p, v) == [prop |-> p, val |-> v]

\* inline = "position:relative; box-sizing:border-box; " + inline
InlinePrefix == {Decl("position", <<"relative">>),
                 Decl("box-sizing", <<"border-box">>)}

\* One step "at { prop: val; }" of a @keyframes block.
Step(at, p, v) == [at |-> at, prop |-> p, val |-> v]

\* The steps of the @keyframes block of an animated type.
KeyframesBody(f, kind, c1, c2) ==
    CASE kind = "flow" ->
           IF f = "skill"
           THEN {Step("0%", "background-position", <<"0%", "50%">>),
                 Step("100%", "background-position", <<"200%", "50%">>)}
           ELSE {Step("0%", "--pos", <<"0deg">>),
                 Step("100%", "--pos", <<"360deg">>)}
      [] kind = "pulse_border" ->
           {Step("0%", "box-shadow", <<"0", "0", "0", "0", "rgba(0,0,0,0)">>),
            Step("50%", "box-shadow",
                 <<"0", "0", "24px", "8px">> \o Safe(c1) \o <<"6", "6">>),
            Step("100%", "box-shadow", <<"0", "0", "0", "0", "rgba(0,0,0,0)">>)}
      [] OTHER ->
           {Step("0%", "border-color", Safe(c1)),
            Step("50%", "border-color", Safe(c2)),
            Step("100%", "border-color", Safe(c1))}

\* The declarations of the rule that runs the animation.
ClassBody(f, kind, uid, c1, c2) ==
    LET anim == Decl("animation", KeyframesName(kind, uid))
        conic == <<"conic-gradient", "from", "var(--pos)">> \o Safe(c1)
                    \o <<",">> \o Safe(c2) \o <<",">> \o Safe(c1)
        linear == <<"linear-gradient", "90deg">> \o Safe(c1) \o <<",">>
                    \o Safe(c2) \o <<",">> \o Safe(c1)
        mask == <<"linear-gradient(#000 0 0)", "content-box", ",",
                  "linear-gradient(#000 0 0)">>
    IN  IF kind # "flow" THEN {anim}
        ELSE IF f = "skill"
        THEN {Decl("content", <<"\"", "\"">>),
              Decl("position", <<"absolute">>),
              Decl("inset", <<"-3px">>),
              Decl("border-radius", <<"inherit">>),
              Decl("padding", <<"3px">>),
              Decl("background", linear),
              Decl("background-size", <<"300%", "300%">>),
              Decl("-webkit-mask", mask),
              Decl("-webkit-mask-composite", <<"xor">>),
              Decl("mask-composite", <<"exclude">>),
              anim}
        ELSE {Decl("border", <<"6px", "solid", "transparent">>),
              Decl("border-radius", <<"14px">>),
              Decl("--pos", <<"0deg">>),
              Decl("-webkit-border-image", conic),
              Decl("border-image", conic),
              anim}

\* The rules of the auxiliary text of an animated type: the @keyframes
\* block and the rule of the class that runs it for dur seconds.  In the
\* skill family the flow animation runs on the class's ::before, and the
\* class itself has a rule of its own.
AnimationRules(f, kind, cls, uid, dur, c1, c2) ==
    {[rule |-> "keyframes", name |-> KeyframesName(kind, uid),
      dur |-> <<0, 1>>, body |-> KeyframesBody(f, kind, c1, c2)],
     [rule |-> "class", name |-> cls, dur |-> dur,
      body |-> ClassBody(f, kind, uid, c1, c2)]}
    \cup IF f = "skill" /\ kind = "flow"
         THEN {[rule |-> "host", name |-> cls, dur |-> <<0, 1>>,
                body |-> {Decl("position", <<"relative">>),
                          Decl("border-radius", <<"14px">>)}]}
         ELSE {}

NoCss == [inline |-> {}, extra |-> {}, cls |-> <<>>, dur |-> <<0, 1>>,
          raised |-> FALSE]

\* _css_for_border(prefix, btype, c1, c2, speed, uid) of family f:
\* (inline, extra, cls), with the duration it computed.
CssForBorderUnknownFlows(f, prefix, btype, c1, c2, speed, uid) ==
    LET cls == ClassName(prefix, uid)
        d == Duration("flow", speed)
    IN  [NoCss EXCEPT !.cls = cls, !.inline = InlinePrefix,
                      !.extra = AnimationRules(f, "flow", cls, uid, d.dur, c1, c2),
                      !.dur = d.dur]

CssForBorder(f, prefix, btype, c1, c2, speed, uid) ==
    LET cls == ClassName(prefix, uid)
        r0 == [NoCss EXCEPT !.cls = cls]
        radius(px) == Decl("border-radius", <<px>>)
        grad == <<"linear-gradient", "90deg">> \o Safe(c1) \o <<",">>
                    \o Safe(c2)
        d == Duration(btype, speed)
        animated(kind, decls) ==
            IF d.raised THEN [r0 EXCEPT !.raised = TRUE]
            ELSE [r0 EXCEPT !.inline = InlinePrefix \cup decls,
                            !.extra = AnimationRules(f, kind, cls, uid, d.dur, c1, c2),
                            !.dur = d.dur]
    IN  CASE btype \in {"", "none"} ->
               [r0 EXCEPT !.inline = InlinePrefix \cup
                              {Decl("border", <<"none">>), radius("12px")}]
          [] btype = "solid" ->
               [r0 EXCEPT !.inline = InlinePrefix \cup
                              {Decl("border", <<"4px", "solid">> \o Safe(c1)),
                               radius("12px")}]
          [] btype = "gradient" ->
               [r0 EXCEPT !.inline = InlinePrefix \cup
                              {Decl("border", <<"6px", "solid", "transparent">>),
                               radius("14px"),
                               Decl("-webkit-border-image", grad),
                               Decl("border-image", grad)}]
          [] btype = "flow" ->
               animated("flow", IF f = "skill" THEN {radius("14px")} ELSE {})
          [] btype = "pulse" ->
               animated("pulse_border",
                        {Decl("border", <<"4px", "solid">> \o Safe(c1)),
                         radius("14px")})
          [] btype = "changing" ->
               animated("changing_border",
                        {Decl("border", <<"6px", "solid">> \o Safe(c1)),
                         radius("14px")})
          [] OTHER ->
               [r0 EXCEPT !.inline = InlinePrefix \cup
                              {Decl("border", <<"3px", "solid">> \o Safe(c1)),
                               radius("12px")}]

\* The values the compiler is called with: the types of the editor's
\* selectbox, the empty type and one the compiler does not know; speeds in
\* twentieths from below zero up to MaxSpeed twentieths.
BorderTypes == {"", "none", "solid", "gradient", "flow", "pulse", "changing",
                "zigzag"}

Animated == {"flow", "pulse", "changing"}

Speeds == {<<n, 20>> : n \in (0 - 2)..MaxSpeed}

Colours == {<<"#", "a">>, <<"\"", "b">>}

Prefixes == {"card", "img"}

\* The calls of the compiler: one pending call per choice of arguments.
BorderCalls ==
    [op : {"call"}, prefix : Prefixes, btype : BorderTypes, c1 : Colours,
     c2 : {<<"#", "c">>}, speed : Speeds, uid : {<<"1", "_", "1">>}]

InitBorder ==
    /\ fam \in Fam
    /\ cols = FullCols
    /\ store = {}
    /\ nextId = 1
    /\ clock = 1
    /\ bootstrapped = TRUE
    /\ last = NoCall
    /\ sess = [s \in Sessions |-> IdleSession]
    /\ InitEditor
    /\ view = NoView
    /\ sheet = NoSheet
    /\ calc \in BorderCalls

\* The pending call runs and returns.
Compile ==
    /\ calc.op = "call"
    /\ calc' = [op |-> "css", prefix |-> calc.prefix, btype |-> calc.btype,
                c1 |-> calc.c1, c2 |-> calc.c2, speed |-> calc.speed,
                uid |-> calc.uid,
                out |-> CssForBorder(fam, calc.prefix, calc.btype, calc.c1,
                                     calc.c2, calc.speed, calc.uid)]
    /\ UNCHANGED <<fam, cols, store, nextId, clock, bootstrapped, last, sess,
                   edVars, view, sheet>>

NextBorder == Compile

SpecBorder == InitBorder /\ [][NextBorder]_vars

\* The two compilations of one card document: the frame of the card and
\* the frame of the icon, with the same uid; their inline declarations and
\* auxiliary rules go into the one <style> element of the document, the
\* card's rules first.
FrameSpeeds == {<<20, 20>>, <<40, 20>>}

SecondColours == {<<"#", "c">>, <<"c", "\"">>}

FrameArgs ==
    [btype : BorderTypes, c1 : Colours, c2 : SecondColours,
     speed : FrameSpeeds]

FrameCalls ==
    [op : {"frames"}, card : FrameArgs, img : FrameArgs,
     uid : {<<"1", "_", "1">>}]

InitFrames ==
    /\ fam \in Fam
    /\ cols = FullCols
    /\ store = {}
    /\ nextId = 1
    /\ clock = 1
    /\ bootstrapped = TRUE
    /\ last = NoCall
    /\ sess = [s \in Sessions |-> IdleSession]
    /\ InitEditor
    /\ view = NoView
    /\ sheet = NoSheet
    /\ calc \in FrameCalls

CompileFrames ==
    /\ calc.op = "frames"
    /\ calc' = [op |-> "style", card |-> calc.card, img |-> calc.img,
                uid |-> calc.uid,
                card_out |-> CssForBorder(fam, "card", calc.card.btype,
                                          calc.card.c1, calc.card.c2,
                                          calc.card.speed, calc.uid),
                img_out |-> CssForBorder(fam, "img", calc.img.btype,
                                         calc.img.c1, calc.img.c2,
                                         calc.img.speed, calc.uid)]
    /\ UNCHANGED <<fam, cols, store, nextId, clock, bootstrapped, last, sess,
                   edVars, view, sheet>>

NextFrames == CompileFrames

SpecFrames == InitFrames /\ [][NextFrames]_vars

(***************************************************************************)
(* The composition of a template card: _render_item_template_popup and     *)
(* _render_skill_template_popup.  Texts are sequences of characters.  A    *)
(* template carries the title, one of the one-line fields (rank), the      *)
(* long texts (descricao; efeito_passivo or efeito_bonus; the item         *)
(* family's bonus_equipamento), the border types and whether an icon is    *)
(* stored.                                                                 *)
(***************************************************************************)
\* html.escape(s), quote=True, for one character.
EscapeChar(ch) ==
    CASE ch = "&" -> <<"&", "a", "m", "p", ";">>
      [] ch = "<" -> <<"&", "l", "t", ";">>
      [] ch = ">" -> <<"&", "g", "t", ";">>
      [] ch = "\"" -> <<"&", "q", "u", "o", "t", ";">>
      [] ch = "'" -> <<"&", "#", "x", "2", "7", ";">>
      [] OTHER -> <<ch>>

RECURSIVE HtmlEscape(_)
HtmlEscape(t) ==
    IF t = <<>> THEN <<>> ELSE EscapeChar(Head(t)) \o HtmlEscape(Tail(t))

LineBreak == <<"<", "b", "r", ">">>

\* s.replace("\n", "<br>")
RECURSIVE ReplaceNewlines(_)
ReplaceNewlines(t) ==
    IF t = <<>> THEN <<>>
    ELSE (IF Head(t) = "\n" THEN LineBreak ELSE <<Head(t)>>)
            \o ReplaceNewlines(Tail(t))

\* str.splitlines(): the lines of t without their ends; a line ends at
\* "\n", "\r" or "\r\n", and a line end at the end of t opens no line.
RECURSIVE SplitLines(_)
SplitLines(t) ==
    IF t = <<>> THEN <<>>
    ELSE LET ends == {i \in 1..Len(t) : t[i] \in {"\n", "\r"}}
         IN  IF ends = {} THEN <<t>>
             ELSE LET i == CHOOSE x \in ends : \A y \in ends : x <= y
                      j == IF t[i] = "\r" /\ i < Len(t) /\ t[i + 1] = "\n"
                           THEN i + 1 ELSE i
                  IN  <<SubSeq(t, 1, i - 1)>>
                         \o SplitLines(SubSeq(t, j + 1, Len(t)))

\* sep.join(parts)
RECURSIVE Join(_, _)
Join(sep, parts) ==
    IF parts = <<>> THEN <<>>
    ELSE IF Len(parts) = 1 THEN parts[1]
    ELSE parts[1] \o sep \o Join(sep, Tail(parts))

\* str.count("\n")
CountNewlines(t) == Cardinality({i \in DOMAIN t : t[i] = "\n"})

\* esc_lines of the item module.
EscLines(text) ==
    IF text = <<>> THEN <<>>
    ELSE LET lines == SplitLines(text)
         IN  Join(LineBreak, [i \in DOMAIN lines |-> HtmlEscape(lines[i])])

\* _html.escape(x).replace("\n", "<br>") if x else "" of the skill module.
SkillEsc(text) ==
    IF text = <<>> THEN <<>> ELSE ReplaceNewlines(HtmlEscape(text))

\* a or b on strings.
OrElse(a, b) == IF a # <<>> THEN a ELSE b

\* _g("card_border_type") or "none"
BorderTypeOf(v) == IF v = "" THEN "none" ELSE v

\* The height handed to components.html.
ItemHeight(tpl, cat) ==
    LET num_lines == CountNewlines(OrElse(tpl.descricao, cat))
                       + CountNewlines(tpl.efeito)
                       + CountNewlines(tpl.bonus) + 6
        approx_height == 720 + num_lines * 18
        lower == IF approx_height < 1400 THEN approx_height ELSE 1400
    IN  IF 820 > lower THEN 820 ELSE lower

SkillHeight(tpl, cat) ==
    LET desc_lines == IF tpl.descricao # <<>>
                      THEN CountNewlines(tpl.descricao) + 1 ELSE 1
        effect_lines == IF tpl.efeito # <<>>
                        THEN CountNewlines(tpl.efeito) + 1 ELSE 0
        h0 == 420 + desc_lines * 20 + effect_lines * 20
        h1 == IF BorderTypeOf(tpl.card_border_type) # "none"
                 \/ BorderTypeOf(tpl.image_border_type) # "none"
              THEN h0 + 70 ELSE h0
        h2 == IF tpl.icon THEN h1 + 40 ELSE h1
        upper == IF h2 > 500 THEN h2 ELSE 500
    IN  IF upper < 2000 THEN upper ELSE 2000

CardHeightUnclamped(f, tpl, cat) ==
    IF f = "item"
    THEN 720 + 18 * (CountNewlines(OrElse(tpl.descricao, cat))
                       + CountNewlines(tpl.efeito)
                       + CountNewlines(tpl.bonus) + 6)
    ELSE SkillHeight(tpl, cat)

CardHeightNoPadding(f, tpl, cat) ==
    IF f = "item"
    THEN LET h == 720 + 18 * (CountNewlines(OrElse(tpl.descricao, cat))
                                + CountNewlines(tpl.efeito)
                                + CountNewlines(tpl.bonus))
             lower == IF h < 1400 THEN h ELSE 1400
         IN  IF 820 > lower THEN 820 ELSE lower
    ELSE SkillHeight(tpl, cat)

CardHeight(f, tpl, cat) ==
    IF f = "item" THEN ItemHeight(tpl, cat) ELSE SkillHeight(tpl, cat)

\* The description text put into the card's description box.
DescriptionSlotCatalogFirst(f, tpl, cat) ==
    IF f = "item" THEN EscLines(OrElse(cat, tpl.descricao))
    ELSE SkillEsc(OrElse(cat, tpl.descricao))

DescriptionSlot(f, tpl, cat) ==
    IF f = "item" THEN EscLines(OrElse(tpl.descricao, cat))
    ELSE LET descricao_esc == SkillEsc(tpl.descricao)
         IN  IF descricao_esc = <<>> /\ cat # <<>>
             THEN ReplaceNewlines(HtmlEscape(cat))
             ELSE descricao_esc

\* A long text other than the description.
LongSlotRaw(f, text) == text

LongSlot(f, text) == IF f = "item" THEN EscLines(text) ELSE SkillEsc(text)

\* The texts interpolated into the document of the card, by place, and the
\* height of the frame.
RenderCard(f, tpl, name, cat) ==
    [title |-> HtmlEscape(OrElse(tpl.title, name)),
     rank |-> HtmlEscape(tpl.rank),
     efeito |-> LongSlot(f, tpl.efeito),
     bonus |-> IF f = "item" THEN LongSlot(f, tpl.bonus) ELSE <<>>,
     desc |-> DescriptionSlot(f, tpl, cat),
     height |-> CardHeight(f, tpl, cat)]

\* Texts an admin can type into a text area: up to MaxLen characters, the
\* characters of markup and the newline among them.
Alphabet == {"a", "<", ">", "&", "\n"}

Texts == UNION {[1..k -> Alphabet] : k \in 0..MaxLen}

\* One-line texts (text_input) and sample long texts.
ShortTexts == {<<>>, <<"<", "&">>}

LongSamples == {<<>>, <<"&", "\n", "<">>, <<"a", "\n">>}

CatalogTexts == {<<>>, <<"c", "\n", "<">>}

CardName == <<"n", ">">>

\* A text of n + 1 lines.
LinesText(n) == [i \in 1..(2 * n + 1) |-> IF i % 2 = 0 THEN "\n" ELSE "a"]

HeightTexts == {<<>>} \cup {LinesText(n) : n \in 0..MaxLines}

HeightEffects == {<<>>, LinesText(0), LinesText(1), LinesText(MaxLines)}

HeightBonus == {<<>>, LinesText(1)}

HeightCatalog == {<<>>, LinesText(5)}

TextCalls ==
    [op : {"call"},
     tpl : [title : ShortTexts, rank : ShortTexts, descricao : Texts,
            efeito : LongSamples, bonus : {<<>>, <<">", "\n", "\n">>},
            card_border_type : {"none"}, image_border_type : {"none"},
            icon : {FALSE}],
     name : {CardName}, cat : CatalogTexts]

HeightCalls ==
    [op : {"call"},
     tpl : [title : {<<>>}, rank : {<<>>}, descricao : HeightTexts,
            efeito : HeightEffects, bonus : HeightBonus,
            card_border_type : {"none", "solid"},
            image_border_type : {"none", "flow"},
            icon : BOOLEAN],
     name : {CardName}, cat : HeightCatalog]

InitCard(calls) ==
    /\ fam \in Fam
    /\ cols = FullCols
    /\ store = {}
    /\ nextId = 1
    /\ clock = 1
    /\ bootstrapped = TRUE
    /\ last = NoCall
    /\ sess = [s \in Sessions |-> IdleSession]
    /\ InitEditor
    /\ view = NoView
    /\ sheet = NoSheet
    /\ calc \in calls

\* The pending card is composed.
ComposeCard ==
    /\ calc.op = "call"
    /\ calc' = [op |-> "card", tpl |-> calc.tpl, name |-> calc.name,
                cat |-> calc.cat,
                out |-> RenderCard(fam, calc.tpl, calc.name, calc.cat)]
    /\ UNCHANGED <<fam, cols, store, nextId, clock, bootstrapped, last, sess,
                   edVars, view, sheet>>

NextCard == ComposeCard

InitCardText == InitCard(TextCalls)

SpecCardText == InitCardText /\ [][NextCard]_vars

InitCardHeight == InitCard(HeightCalls)

SpecCardHeight == InitCardHeight /\ [][NextCard]_vars

(***************************************************************************)
(* The icon of a card: the data URI built from the stored blob and file    *)
(* name, or the placeholder block.  A blob is NULL, a sequence of bytes or *)
(* a value base64.b64encode does not take (text in the BLOB column).       *)
(***************************************************************************)
UpperLetters ==
    <<"A", "B", "C", "D", "E", "F", "G", "H", "I", "J", "K", "L", "M",
      "N", "O", "P", "Q", "R", "S", "T", "U", "V", "W", "X", "Y", "Z">>

LowerLetters ==
    <<"a", "b", "c", "d", "e", "f", "g", "h", "i", "j", "k", "l", "m",
      "n", "o", "p", "q", "r", "s", "t", "u", "v", "w", "x", "y", "z">>

\* str.lower()
StrLower(s) ==
    [i \in DOMAIN s |->
        IF \E k \in DOMAIN UpperLetters : UpperLetters[k] = s[i]
        THEN LowerLetters[CHOOSE k \in DOMAIN UpperLetters :
                              UpperLetters[k] = s[i]]
        ELSE s[i]]

\* str.strip()
StrStrip(s) ==
    LET solid == {i \in DOMAIN s : s[i] # " "}
    IN  IF solid = {} THEN <<>>
        ELSE SubSeq(s, CHOOSE i \in solid : \A j \in solid : i <= j,
                       CHOOSE i \in solid : \A j \in solid : i >= j)

\* str.endswith(suffix)
EndsWith(s, suffix) ==
    /\ Len(s) >= Len(suffix)
    /\ SubSeq(s, Len(s) - Len(suffix) + 1, Len(s)) = suffix

B64Chars ==
    UpperLetters \o LowerLetters
       \o <<"0", "1", "2", "3", "4", "5", "6", "7", "8", "9", "+", "/">>

\* base64.b64encode(b).decode()
RECURSIVE B64Encode(_)
B64Encode(b) ==
    IF b = <<>> THEN <<>>
    ELSE IF Len(b) = 1
         THEN <<B64Chars[(b[1] \div 4) + 1], B64Chars[(b[1] % 4) * 16 + 1],
                "=", "=">>
    ELSE IF Len(b) = 2
         THEN <<B64Chars[(b[1] \div 4) + 1],
                B64Chars[(b[1] % 4) * 16 + (b[2] \div 16) + 1],
                B64Chars[(b[2] % 16) * 4 + 1], "=">>
    ELSE <<B64Chars[(b[1] \div 4) + 1],
           B64Chars[(b[1] % 4) * 16 + (b[2] \div 16) + 1],
           B64Chars[(b[2] % 16) * 4 + (b[3] \div 64) + 1],
           B64Chars[(b[3] % 64) + 1]>>
            \o B64Encode(SubSeq(b, 4, Len(b)))

NullBlob == [kind |-> "null", bytes |-> <<>>]

\* if icon_blob: None and b"" are false.
BlobTruthy(blob) == blob.kind = "text" \/ (blob.kind = "bytes" /\ blob.bytes # <<>>)

PlaceholderIcon == [kind |-> "placeholder", mime |-> "", data |-> <<>>]

\* mime by the ending of a lowered name.
MimeOfLowered(icon_filename) ==
    IF EndsWith(icon_filename, <<".", "j", "p", "g">>)
          \/ EndsWith(icon_filename, <<".", "j", "p", "e", "g">>)
    THEN "image/jpeg"
    ELSE IF EndsWith(icon_filename, <<".", "g", "i", "f">>) THEN "image/gif"
    ELSE IF EndsWith(icon_filename, <<".", "w", "e", "b", "p">>)
         THEN "image/webp"
    ELSE "image/png"

MimeOfCaseSensitive(icon_filename) == MimeOfLowered(icon_filename)

MimeOf(icon_filename) == MimeOfLowered(StrLower(icon_filename))

\* icon_html_inner of family f for the stored blob and file name; the
\* except clause turns a raising b64encode into the placeholder.
ResolveIcon(f, blob, filename) ==
    LET icon_filename == StrStrip(filename)
    IN  IF BlobTruthy(blob)
        THEN IF blob.kind = "text" THEN PlaceholderIcon
             ELSE [kind |-> "img", mime |-> MimeOf(icon_filename),
                   data |-> B64Encode(blob.bytes)]
        ELSE PlaceholderIcon

\* File names: a stem, a dot or none, an extension in some case, padding.
IconStems == {<<>>, <<"i", "c", "o", "n">>, <<"a", ".", "g", "i", "f">>}

IconExtensions ==
    {<<>>, <<"j", "p", "g">>, <<"J", "P", "G">>, <<"J", "p", "e", "g">>,
     <<"j", "p", "e", "g">>, <<"g", "i", "f">>, <<"G", "i", "F">>,
     <<"w", "e", "b", "p">>, <<"W", "E", "B", "P">>, <<"p", "n", "g">>,
     <<"P", "N", "G">>, <<"b", "m", "p">>, <<"j", "p", "g", "x">>}

IconNames ==
    {s \o d \o e \o p : s \in IconStems, d \in {<<>>, <<".">>},
                        e \in IconExtensions, p \in {<<>>, <<" ">>}}

IconBlobs ==
    {NullBlob, [kind |-> "text", bytes |-> <<>>]}
       \cup {[kind |-> "bytes", bytes |-> b] :
                b \in {<<>>, <<255>>, <<137, 80>>, <<137, 80, 78>>,
                       <<0, 16, 131, 16>>}}

IconCalls == [op : {"call"}, blob : IconBlobs, filename : IconNames]

InitIcon == InitCard(IconCalls)

\* The pending icon is resolved.
ComposeIcon ==
    /\ calc.op = "call"
    /\ calc' = [op |-> "icon", blob |-> calc.blob, filename |-> calc.filename,
                out |-> ResolveIcon(fam, calc.blob, calc.filename)]
    /\ UNCHANGED <<fam, cols, store, nextId, clock, bootstrapped, last, sess,
                   edVars, view, sheet>>

NextIcon == ComposeIcon

SpecIcon == InitIcon /\ [][NextIcon]_vars

(***************************************************************************)
(* bootstrap() column by column.  Here cols holds the real column names of *)
(* the family's table and a row of store is a function from the columns to *)
(* values.                                                                 *)
(***************************************************************************)
TargetCol(f) == IF f = "item" THEN "target_item_id" ELSE "target_skill_id"

\* The columns of CREATE TABLE that desired_cols does not name.
OriginalCols(f) == {"id", "owner_user_id", TargetCol(f), "target_user_id",
                    "title"}

BorderCols ==
    {"card_border_type", "card_border_color1", "card_border_color2",
     "card_border_speed", "image_border_type", "image_border_color1",
     "image_border_color2", "image_border_speed"}

\* desired_cols
DesiredColsOf(f) ==
    {"icon_filename", "icon_blob", "descricao", "created_at", "updated_at"}
       \cup BorderCols
       \cup (IF f = "item"
             THEN {"rank", "classificacao", "tipo", "usos", "requisitos",
                   "efeito_passivo", "bonus_equipamento"}
             ELSE {"alcance", "duracao", "tempo_uso", "acao", "area", "usos",
                   "tipo", "rank", "efeito_bonus"})

\* The columns of SCHEMA_POPUP_BASE.
SchemaCols(f) == OriginalCols(f) \cup DesiredColsOf(f)

\* The value ALTER TABLE ... ADD COLUMN gives to the rows already stored.
ColumnDefault(col) ==
    IF col = "icon_blob" THEN "NULL"
    ELSE IF col \in {"card_border_speed", "image_border_speed"} THEN "1.0"
    ELSE "''"

\* What a call of bootstrap() found and did.  pragma_fails: PRAGMA
\* table_info raises; locked: columns whose ALTER TABLE fails and leaves
\* the table as it was; raced: columns another session adds between the
\* PRAGMA and the ALTER TABLE, which then fails.
BootstrapTableGivesUp(f, c, rows, pragma_fails, locked, raced) ==
    LET c0 == IF c = NoTable THEN SchemaCols(f) ELSE c
        existing_cols == IF pragma_fails THEN {} ELSE c0
        attempted == DesiredColsOf(f) \ existing_cols
        failed == attempted \cap (c0 \cup locked \cup raced)
        new == IF failed = {} THEN attempted ELSE attempted \cap raced
    IN  [cols |-> c0 \cup new,
         rows |-> {[col \in c0 \cup new |->
                       IF col \in c0 THEN r[col] ELSE ColumnDefault(col)] :
                      r \in rows},
         attempted |-> attempted, failed |-> failed, raised |-> FALSE]

BootstrapTableRecreates(f, c, rows, pragma_fails, locked, raced) ==
    [cols |-> SchemaCols(f), rows |-> {}, attempted |-> {}, failed |-> {},
     raised |-> FALSE]

BootstrapTable(f, c, rows, pragma_fails, locked, raced) ==
    LET c0 == IF c = NoTable THEN SchemaCols(f) ELSE c
        existing_cols == IF pragma_fails THEN {} ELSE c0
        attempted == DesiredColsOf(f) \ existing_cols
        failed == attempted \cap (c0 \cup locked \cup raced)
        new == (attempted \ failed) \cup (attempted \cap (raced \ c0))
    IN  [cols |-> c0 \cup new,
         rows |-> {[col \in c0 \cup new |->
                       IF col \in c0 THEN r[col] ELSE ColumnDefault(col)] :
                      r \in rows},
         attempted |-> attempted, failed |-> failed, raised |-> FALSE]

\* Tables an earlier version of the program or another tool left behind:
\* none, or one that lacks some of the columns.
ProbeCols(f) ==
    {"icon_blob", "descricao", "card_border_speed", "created_at",
     IF f = "item" THEN "bonus_equipamento" ELSE "efeito_bonus"}

SchemaTables(f) ==
    {NoTable}
       \cup {(OriginalCols(f) \ b) \cup (DesiredColsOf(f) \ m) :
                b \in SUBSET {"owner_user_id", "title"},
                m \in SUBSET ProbeCols(f) \cup {DesiredColsOf(f)}}

\* The rows of such a table: none, or one row.
SchemaRows(c) ==
    IF c = NoTable THEN {{}}
    ELSE {{}, {[col \in c |-> IF col = "id" THEN "1" ELSE "v"]}}

LockedCols == {"descricao", "created_at"}

RacedCols == {"icon_blob"}

NoBootstrap == [op |-> "none", n |-> 0, locked |-> {}]

InitSchema ==
    /\ fam \in Fam
    /\ cols \in SchemaTables(fam)
    /\ store \in SchemaRows(cols)
    /\ nextId = 1
    /\ clock = 1
    /\ bootstrapped = FALSE
    /\ last = NoCall
    /\ sess = [s \in Sessions |-> IdleSession]
    /\ InitEditor
    /\ view = NoView
    /\ sheet = NoSheet
    /\ calc = NoBootstrap

\* A call of bootstrap().
BootstrapCall(pragma_fails, locked, raced) ==
    /\ calc.n < MaxCalls
    /\ \E r \in {BootstrapTable(fam, cols, store, pragma_fails, locked, raced)} :
          /\ cols' = r.cols
          /\ store' = r.rows
          /\ calc' = [op |-> "bootstrap", n |-> calc.n + 1,
                      locked |-> locked \cap r.failed,
                      before |-> [cols |-> cols, rows |-> store,
                                  locked |-> calc.locked],
                      attempted |-> r.attempted, failed |-> r.failed,
                      raised |-> r.raised]
    /\ UNCHANGED <<fam, nextId, clock, bootstrapped, last, sess, edVars, view, sheet>>

NextSchema ==
    \E pragma_fails \in BOOLEAN, locked \in SUBSET LockedCols,
       raced \in SUBSET RacedCols :
          BootstrapCall(pragma_fails, locked, raced)

SpecSchema == InitSchema /\ [][NextSchema]_vars

(***************************************************************************)
(* The character sheet of main.py: the catalog of skills, the skills       *)
(* linked to characters with their uses, and the inventories.  The         *)
(* connections of these functions do not set PRAGMA foreign_keys, so no    *)
(* foreign key acts, and the popup tables declare none.                    *)
(***************************************************************************)
Users == {1, 2}

\* An optional integer argument: None or a value.
None == [given |-> FALSE, val |-> 0]

Some(v) == [given |-> TRUE, val |-> v]

Max2(a, b) == IF a > b THEN a ELSE b

Min2(a, b) == IF a < b THEN a ELSE b

LinkOf(sh, c, e) == {l \in sh.links : l.cid = c /\ l.skill = e}

\* upsert_user_skill: the skill e of the user exists afterwards.
UpsertUserSkill(sh, user, e) ==
    IF \E s \in sh.skills : s.id = e THEN sh
    ELSE [sh EXCEPT !.skills = @ \cup {[id |-> e, owner |-> user]}]

\* link_skill_to_char: a new row has the column defaults uses_max = 0 and
\* uses_current = 0; a row already there only has its kind set.
LinkSkillToChar(sh, c, e) ==
    IF LinkOf(sh, c, e) # {} THEN sh
    ELSE [sh EXCEPT !.links = @ \cup {[cid |-> c, skill |-> e,
                                       uses_max |-> 0, uses_current |-> 0]}]

\* unlink_skill_from_char
UnlinkSkillFromChar(sh, c, e) ==
    [sh EXCEPT !.links = @ \ LinkOf(sh, c, e)]

\* delete_skill_if_owner_and_unreferenced
DeleteSkillIfOwnerAndUnreferenced(sh, e, user) ==
    IF /\ \E s \in sh.skills : s.id = e /\ s.owner = user
       /\ ~\E l \in sh.links : l.skill = e
    THEN [sh EXCEPT !.skills = {s \in @ : s.id # e}]
    ELSE sh

\* set_inv_qty
SetInvQty(sh, c, item, qty) ==
    IF qty <= 0
    THEN [sh EXCEPT !.inv = {i \in @ : ~(i.cid = c /\ i.item = item)}]
    ELSE [sh EXCEPT !.inv = {i \in @ : ~(i.cid = c /\ i.item = item)}
                               \cup {[cid |-> c, item |-> item, qty |-> qty]}]

\* update_skill_uses(cid, skill_id, uses_max, uses_current)
UpdateSkillUsesUnclamped(sh, c, e, uses_max, uses_current) ==
    IF LinkOf(sh, c, e) = {} THEN sh
    ELSE LET row == CHOOSE l \in LinkOf(sh, c, e) : TRUE
             m0 == IF uses_max.given THEN uses_max.val ELSE row.uses_max
             c0 == IF uses_current.given THEN uses_current.val
                   ELSE row.uses_current
         IN  [sh EXCEPT !.links = (@ \ {row})
                 \cup {[row EXCEPT !.uses_max = Max2(0, m0),
                                   !.uses_current = Max2(0, c0)]}]

UpdateSkillUses(sh, c, e, uses_max, uses_current) ==
    IF LinkOf(sh, c, e) = {} THEN sh
    ELSE LET row == CHOOSE l \in LinkOf(sh, c, e) : TRUE
             m0 == IF uses_max.given THEN uses_max.val ELSE row.uses_max
             c0 == IF uses_current.given THEN uses_current.val
                   ELSE row.uses_current
             m1 == Max2(0, m0)
             c1 == Max2(0, Min2(c0, m1))
         IN  [sh EXCEPT !.links = (@ \ {row})
                 \cup {[row EXCEPT !.uses_max = m1, !.uses_current = c1]}]

\* reset_all_skill_uses
ResetAllSkillUses(sh, c) ==
    [sh EXCEPT !.links = {IF l.cid = c
                          THEN [l EXCEPT !.uses_current = l.uses_max]
                          ELSE l : l \in @}]

\* The popup rows after a skill left the catalog: the popup tables have no
\* reference to the catalog.
PopupRowsCascade(rows, before, after) ==
    {r \in rows : \A s \in before.skills \ after.skills : r.target_id # s.id}

PopupRowsAfter(rows, before, after) == rows

\* A step of the sheet: st.session_state and the popup tables stay.
SheetStep(sh) ==
    /\ sheet' = sh
    /\ store' = PopupRowsAfter(store, sheet, sh)
    /\ UNCHANGED <<fam, cols, nextId, clock, bootstrapped, last, sess,
                   edVars, view, calc>>

\* section_skills: the "add skill" button.
AddSkill(c, e, user) ==
    /\ \A s \in sheet.skills : s.id = e => s.owner = user
    /\ SheetStep(LinkSkillToChar(UpsertUserSkill(sheet, user, e), c, e))

\* render_skill_row: the delete button of a linked skill.
RemoveSkill(c, e, user) ==
    /\ LinkOf(sheet, c, e) # {}
    /\ SheetStep(DeleteSkillIfOwnerAndUnreferenced(
                    UnlinkSkillFromChar(sheet, c, e), e, user))

\* section_inventory: the quantity of an item is set.
ChangeInventory(c, item, qty) == SheetStep(SetInvQty(sheet, c, item, qty))

\* update_skill_uses called with any arguments.
CallUpdateSkillUses(c, e, uses_max, uses_current) ==
    SheetStep(UpdateSkillUses(sheet, c, e, uses_max, uses_current))

\* section_skills: the "restore all uses" button.
ResetUses(c) == SheetStep(ResetAllSkillUses(sheet, c))

\* render_skill_row: "spend one use" and "restore" of a linked skill, usos
\* being the value of the number input.
SpendUse(c, e, usos) ==
    /\ LinkOf(sheet, c, e) # {}
    /\ LET cur_db == (CHOOSE l \in LinkOf(sheet, c, e) : TRUE).uses_current
       IN  SheetStep(UpdateSkillUses(sheet, c, e, Some(usos),
                                     Some(Max2(0, cur_db - 1))))

RestoreUse(c, e, usos) ==
    /\ LinkOf(sheet, c, e) # {}
    /\ SheetStep(UpdateSkillUses(sheet, c, e, Some(usos), Some(usos)))

\* Templates of the family: one for an entity of a character and one for
\* any entity of that character.
SheetStores ==
    {{NewRow(1, e, c, [title |-> "T"], 1),
      NewRow(2, NULL, c, [title |-> "T"], 1)} : e \in Ents, c \in Chars}

InitSheet ==
    /\ fam \in Fam
    /\ cols = FullCols
    /\ store \in SheetStores
    /\ nextId = MaxId + 1
    /\ clock = 1
    /\ bootstrapped = TRUE
    /\ last = NoCall
    /\ sess = [s \in Sessions |-> IdleSession]
    /\ InitEditor
    /\ InitRead

NextSheet ==
    \/ \E c \in Chars, e \in Ents, user \in Users : AddSkill(c, e, user)
    \/ \E c \in Chars, e \in Ents, user \in Users : RemoveSkill(c, e, user)
    \/ \E c \in Chars, item \in Ents, qty \in 0..1 :
          ChangeInventory(c, item, qty)
    \/ \E id \in 1..MaxId : CallDelete(id)

SpecSheet == InitSheet /\ [][NextSheet]_vars

UseArgs == {None} \cup {Some(v) : v \in (0 - 1)..(MaxUses + 1)}

InitUses ==
    /\ fam = "skill"
    /\ cols = FullCols
    /\ store = {}
    /\ nextId = 1
    /\ clock = 1
    /\ bootstrapped = TRUE
    /\ last = NoCall
    /\ sess = [s \in Sessions |-> IdleSession]
    /\ InitEditor
    /\ InitRead

NextUses ==
    \/ \E c \in Chars, e \in Ents : AddSkill(c, e, 1)
    \/ \E c \in Chars, e \in Ents : RemoveSkill(c, e, 1)
    \/ \E c \in Chars, e \in Ents, m \in UseArgs, u \in UseArgs :
          CallUpdateSkillUses(c, e, m, u)
    \/ \E c \in Chars : ResetUses(c)
    \/ \E c \in Chars, e \in Ents, usos \in 0..MaxUses : SpendUse(c, e, usos)
    \/ \E c \in Chars, e \in Ents, usos \in 0..MaxUses : RestoreUse(c, e, usos)

SpecUses == InitUses /\ [][NextUses]_vars

(***************************************************************************)
(* Properties of the persistence layer (specification Spec).               *)
(***************************************************************************)
\* The rows stored under exactly the natural key (t, u), NULL equal to NULL
\* only.
KeyRows(t, u) == {r \in store : r.target_id = t /\ r.target_user_id = u}

\* C1: after any sequence of upsert_popup and delete_popup calls run one at
\* a time the table holds at most one row per natural key (NULL equal to
\* NULL only), also for keys with one or both parts NULL; ids are unique.
C1_OneRowPerKey ==
    \A r1, r2 \in store :
        \/ r1 = r2
        \/ /\ r1.id # r2.id
           /\ ~(r1.target_id = r2.target_id
                /\ r1.target_user_id = r2.target_user_id)

\* A second upsert of the all-NULL key has updated its row, beside a row
\* stored under another key with a NULL part.
C1_Witness ==
    /\ last.op = "upsert" /\ ~last.raised /\ ~last.inserted
    /\ last.t = NULL /\ last.u = NULL
    /\ \E r \in store : r.target_id = NULL /\ r.target_user_id # NULL
    /\ Cardinality(store) = 2

\* The last two calls were upserts of one natural key, the earlier one
\* returned an id, and their field values differ.
TwoUpserts ==
    /\ last.op = "upsert"
    /\ last.first.ret # NULL
    /\ last.first.f # last.f

\* C2 (as amended): two upserts of one natural key with different field
\* values leave exactly one row for the key; both calls returned its id; its
\* mutable fields are those of the second call; created_at is what the first
\* call wrote (the first call's clock reading when it inserted the row) and
\* updated_at is the second call's clock reading, which is not earlier than
\* created_at.
C2_SecondUpsertUpdates ==
    TwoUpserts =>
        /\ ~last.raised
        /\ last.ret = last.first.ret
        /\ Cardinality(KeyRows(last.t, last.u)) = 1
        /\ \A r \in KeyRows(last.t, last.u) :
              /\ r.id = last.ret
              /\ r.title = last.f.title
              /\ r.created_at <= last.first.now
              /\ last.first.inserted => r.created_at = last.first.now
              /\ r.updated_at = last.now
              /\ r.updated_at >= r.created_at

\* The first call inserted the row and the clock moved on before the second.
C2_Witness ==
    /\ TwoUpserts
    /\ last.first.inserted
    /\ last.now > last.first.now
    /\ \E r \in KeyRows(last.t, last.u) : r.updated_at > r.created_at

\* C2 as stated: updated_at is later than created_at after the second call.
C2_UpdatedAtLater ==
    TwoUpserts =>
        \A r \in KeyRows(last.t, last.u) : r.updated_at > r.created_at

\* The natural keys item_popup.get_popup_for(t, u) tries, in order; a step
\* whose non-NULL argument is missing is not tried.
ChainKeys(t, u) == <<(<<t, u>>), (<<t, NULL>>), (<<NULL, u>>), (<<NULL, NULL>>)>>

StepTried(i, t, u) ==
    CASE i = 1 -> t # NULL /\ u # NULL
      [] i = 2 -> t # NULL
      [] i = 3 -> u # NULL
      [] OTHER -> TRUE

StepHits(i, t, u) ==
    /\ StepTried(i, t, u)
    /\ KeyRows(ChainKeys(t, u)[i][1], ChainKeys(t, u)[i][2]) # {}

\* C4: item_popup.get_popup_for(item, scope) returns the first existing
\* template in the order (item, scope), (item, NULL), (NULL, scope),
\* (NULL, NULL), None only when none exists, and never a template of another
\* non-NULL item or another non-NULL scope.
C4_ItemFallbackOrder ==
    (fam = "item" /\ last.op = "get" /\ ~last.raised) =>
        /\ (last.row = NoRow) <=> (\A i \in 1..4 : ~StepHits(i, last.t, last.u))
        /\ \A i \in 1..4 :
              (StepHits(i, last.t, last.u)
               /\ \A j \in 1..(i - 1) : ~StepHits(j, last.t, last.u))
              => last.row \in KeyRows(ChainKeys(last.t, last.u)[i][1],
                                      ChainKeys(last.t, last.u)[i][2])
        /\ last.row # NoRow =>
              /\ last.row.target_id \in {NULL, last.t}
              /\ last.row.target_user_id \in {NULL, last.u}

\* The item-only template is returned although a scope-only template of the
\* asked scope exists too.
C4_Witness ==
    /\ fam = "item" /\ last.op = "get"
    /\ last.t # NULL /\ last.u # NULL
    /\ last.row.id # NULL
    /\ last.row.target_id = last.t /\ last.row.target_user_id = NULL
    /\ KeyRows(NULL, last.u) # {}

\* C5 (as amended): skill_popup.get_popup_for returns the template stored
\* under exactly (skill, character) when both parts are non-NULL and one is
\* stored, and None otherwise: for a key with a NULL part it returns None
\* even when a template is stored under that key.  It never returns a
\* template of another key.
C5_SkillExactNonNull ==
    (fam = "skill" /\ last.op = "get" /\ ~last.raised) =>
        IF last.t # NULL /\ last.u # NULL
          THEN /\ KeyRows(last.t, last.u) = {} => last.row = NoRow
               /\ KeyRows(last.t, last.u) # {}
                    => last.row \in KeyRows(last.t, last.u)
          ELSE last.row = NoRow

\* A lookup of a fully non-NULL key returns its template while a template
\* with a NULL key part is stored as well.
C5_Witness ==
    /\ fam = "skill" /\ last.op = "get"
    /\ last.row.id # NULL
    /\ last.row \in KeyRows(last.t, last.u)
    /\ \E r \in store : r.target_id = NULL /\ r.target_user_id = last.u

\* C5 as stated: for every natural key, NULL parts included, the lookup
\* returns the template stored under exactly that key when one exists.
C5_SkillExactAnyKey ==
    (fam = "skill" /\ last.op = "get" /\ ~last.raised) =>
        /\ KeyRows(last.t, last.u) = {} => last.row = NoRow
        /\ KeyRows(last.t, last.u) # {} => last.row \in KeyRows(last.t, last.u)

(***************************************************************************)
(* Properties of concurrent upserts (specification SpecConc).              *)
(***************************************************************************)
\* C3: when two sessions have run upsert_popup for the same natural key with
\* their steps interleaved, the table holds exactly one row for that key,
\* for keys with NULL parts as for fully non-NULL keys.
C3_ConcurrentUpsertOneRow ==
    \A s1, s2 \in Sessions :
        (/\ s1 # s2
         /\ sess[s1].pc \in {"done", "raised"}
         /\ sess[s2].pc \in {"done", "raised"}
         /\ sess[s1].t = sess[s2].t
         /\ sess[s1].u = sess[s2].u)
        => Cardinality(KeyRows(sess[s1].t, sess[s1].u)) = 1

(***************************************************************************)
(* Properties of the editor (specification SpecEditor).  run describes the *)
(* latest run; cid, sel and form are what that run worked with.            *)
(***************************************************************************)
\* C6: a run in which the save button fired called upsert_popup for the key
\* (selected target, current character) with the values of the field
\* widgets and ended in exactly one of two ways: the confirmation, with
\* the one row of that key holding these values, written at this run's clock
\* reading; or the failure report with the traceback.  It showed something
\* in both, no exception left the function, the controller is in
\* TargetSelected and the page holds every widget for the next action.
C6_SaveConfirmsOrReports ==
    run.pressed = "save" =>
        /\ "write" \in run.work
        /\ \/ /\ run.msgs = {"saved"}
              /\ Cardinality(KeyRows(sel, cid)) = 1
              /\ \A r \in KeyRows(sel, cid) :
                    r.title = form.title /\ r.updated_at = clock
           \/ run.msgs = {"save_error", "traceback"}
        /\ run.state = "TargetSelected"
        /\ rendered = "all"
        /\ ~run.propagated

\* A run that saved a typed title over a stored template.
C6_Witness ==
    /\ run.pressed = "save"
    /\ run.msgs = {"saved"}
    /\ form.title = "T"
    /\ \E r \in KeyRows(sel, cid) : r.title = "T"
    /\ Cardinality(store) = 2

\* C7: a run in which the delete button fired, when a template is stored
\* for (selected target, current character), removed that row and no other
\* and confirmed it (or delete_popup raised, the store is as it was and the
\* failure is reported); when none is stored, it sent no write to the store,
\* left it as it was and showed the warning that there is nothing to
\* delete.
C7_DeleteExactlyExisting ==
    [][(run'.pressed = "delete" /\ targets' = targets) =>
          LET ex == {r \in store : r.target_id = sel'
                                   /\ r.target_user_id = cid'}
          IN  IF ex # {}
                THEN /\ Cardinality(ex) = 1
                     /\ "write" \in run'.work
                     /\ \/ store' = store \ ex /\ run'.msgs = {"deleted"}
                        \/ /\ store' = store
                           /\ run'.msgs = {"delete_error", "traceback"}
                ELSE /\ store' = store
                     /\ run'.msgs = {"nothing_to_delete"}
                     /\ "write" \notin run'.work]_vars

\* A run that deleted the selected target's template and left another one.
C7_Witness ==
    /\ run.pressed = "delete"
    /\ run.msgs = {"deleted"}
    /\ KeyRows(sel, cid) = {}
    /\ store # {}

\* C8: the stored templates change only in a run in which the save or the
\* delete button fired; a run that selects a target, changes a field or
\* redraws the previews, and a change of character or of the character's
\* entities, leave every stored row as it is.
C8_OnlySaveDeleteChangeStore ==
    [][store' # store =>
          /\ run'.pressed \in {"save", "delete"}
          /\ "write" \in run'.work]_vars

\* A field was changed to a value that differs from the stored template's,
\* which is still stored.
C8_Witness ==
    /\ run.state = "Editing"
    /\ run.pressed = "none"
    /\ \E r \in KeyRows(sel, cid) : r.title # form.title

\* C9: an editor call for a user who is no admin, or with no current
\* character, reads and writes no template; the skill editor's first call
\* in the process runs the schema bootstrap before it looks at the user, the
\* item editor sends nothing at all.  For an admin with no character the
\* call shows that a selection is required (or the error report, when
\* reading the session state raised), for a non-admin it shows nothing.
C9_NoWorkBeyondBootstrap ==
    (run.cu # "admin" \/ cid = NULL) =>
        /\ run.work \subseteq (IF fam = "skill" THEN {"schema"} ELSE {})
        /\ run.cu # "admin" => run.msgs = {}
        /\ run.cu = "admin" =>
              run.msgs \in {{"selection_required"},
                            {"editor_error", "traceback"}}

\* The skill editor, called for an admin with no character selected, ran
\* the bootstrap and asked for a selection.
C9_Witness ==
    /\ run.cu = "admin"
    /\ cid = NULL
    /\ run.msgs = {"selection_required"}
    /\ run.work = {"schema"}

\* C9 as stated: no work on the store at all without an admin and a
\* current character.
C9_NoWorkAtAll ==
    (run.cu # "admin" \/ cid = NULL) => run.work = {}

\* C10: no exception leaves the editor function, whichever statement of
\* the run raised.
C10_NothingPropagates == ~run.propagated

\* A run in which a statement outside the save and delete handlers raised
\* after the selectbox was drawn.
C10_Witness ==
    /\ run.msgs = {"editor_error", "traceback"}
    /\ rendered = "select"
    /\ "read" \in run.work

(***************************************************************************)
(* Properties of the read path (specification SpecView).                   *)
(***************************************************************************)
\* C11 as stated: when the rendering of a popup raised (lookup or
\* composition), the page shows the plain catalog description of that
\* target, no error message, and the exception did not leave the run.
C11_FailureFallsBackToCatalog ==
    \A e \in view.failed :
        /\ view.cards[e] = PlainCard(e, EntDesc(e))
        /\ view.msgs = {}
        /\ ~view.propagated

\* C12: an open popup whose lookup finds no template (and whose rendering
\* did not raise) shows the entity's catalog name and its catalog
\* description (the placeholder text when the catalog has none), without
\* instance id or border class; a run in which nothing raised shows no
\* error.
C12_NoTemplatePlainCard ==
    /\ \A e \in DOMAIN view.cards :
          (/\ <<e, cid>> \in view.open
           /\ view.cards[e].kind \notin {"failed", "missing"}
           /\ GetPopupFor(fam, store, e, cid) = NoRow)
          => /\ view.cards[e].kind = "plain"
             /\ view.cards[e].heading = EntName(e)
             /\ view.cards[e].body =
                   (IF EntDesc(e) = "" THEN NoDescription ELSE EntDesc(e))
             /\ view.cards[e].uid = <<>>
             /\ view.cards[e].cls = {}
    /\ view.failed = {} => view.msgs = {} /\ ~view.propagated

\* An open popup shows the catalog description although a template is
\* stored, for another key, and another popup of the page shows a template.
C12_Witness ==
    /\ store # {}
    /\ \E e \in DOMAIN view.cards :
          /\ <<e, cid>> \in view.open
          /\ view.cards[e].kind = "plain"
          /\ view.cards[e].body = "D"
    /\ \E e \in DOMAIN view.cards : view.cards[e].kind = "card"

\* C13 as stated: two template cards drawn on one page for different
\* targets have different instance ids and no border class in common.
C13_DistinctInstanceIds ==
    \A e1, e2 \in DOMAIN view.cards :
        (/\ e1 # e2
         /\ view.cards[e1].kind = "card"
         /\ view.cards[e2].kind = "card")
        => /\ view.cards[e1].uid # view.cards[e2].uid
           /\ view.cards[e1].cls \cap view.cards[e2].cls = {}

(***************************************************************************)
(* Properties of the border style compiler                                 *)
(***************************************************************************)
\* The duration the compiler computes for the call's arguments at twice
\* the call's speed.
DurTwice ==
    CssForBorder(fam, calc.prefix, calc.btype, calc.c1, calc.c2,
                 RatTwice(calc.speed), calc.uid).dur

AnimatedCall == calc.op = "css" /\ calc.btype \in Animated

\* C14 (as amended): for flow, pulse and changing and every positive speed
\* s, the duration at speed 2s is never longer than the duration at s, and
\* it is strictly shorter whenever 2s is above the 0.1 clamp and the
\* duration at s is above the 0.6 floor.
C14_DoublingNeverSlower ==
    (AnimatedCall /\ calc.speed[1] > 0) =>
        /\ ~RatLess(calc.out.dur, DurTwice)
        /\ (RatLess(<<1, 10>>, RatTwice(calc.speed))
              /\ RatLess(<<3, 5>>, calc.out.dur))
             => RatLess(DurTwice, calc.out.dur)

C14_Witness ==
    /\ AnimatedCall
    /\ calc.btype = "flow"
    /\ RatEq(calc.speed, <<1, 1>>)
    /\ RatEq(calc.out.dur, <<4, 1>>)
    /\ RatEq(DurTwice, <<2, 1>>)

\* C14 (as stated): for every positive speed s, doubling the speed strictly
\* decreases the duration.
C14_DoublingStrictlyFaster ==
    (AnimatedCall /\ calc.speed[1] > 0) => RatLess(DurTwice, calc.out.dur)

\* C15: for an animated type and any speed, zero and negative included, the
\* compiler divides by max(0.1, speed), so nothing is divided by zero, and
\* the duration is max(0.6, base / max(0.1, speed)) with base 4 for flow,
\* 2 for pulse and 3 for changing; it is never below 0.6.
C15_DurationClamped ==
    AnimatedCall =>
        LET base == CASE calc.btype = "flow" -> 4
                      [] calc.btype = "pulse" -> 2
                      [] calc.btype = "changing" -> 3
            m == IF RatLess(calc.speed, <<1, 10>>) THEN <<1, 10>>
                 ELSE calc.speed
            q == <<base * m[2], m[1]>>
        IN  /\ ~calc.out.raised
            /\ ~RatLess(calc.out.dur, <<3, 5>>)
            /\ RatEq(calc.out.dur, IF RatLess(q, <<3, 5>>) THEN <<3, 5>> ELSE q)

C15_Witness ==
    /\ AnimatedCall
    /\ calc.btype = "pulse"
    /\ calc.speed[1] = 0
    /\ ~calc.out.raised
    /\ RatEq(calc.out.dur, <<20, 1>>)

\* The declarations of an inline style that draw a border.
BorderDecls(out) ==
    {d \in out.inline :
        d.prop \in {"border", "border-image", "-webkit-border-image"}}

\* C16: the compiler emits auxiliary rules (a keyframes block and the rule
\* of the class) exactly for flow, pulse and changing; for none the only
\* border declaration of the inline style is "border: none"; for a type it
\* does not know it declares a 3px solid border in the first colour.
C16_AuxiliaryRulesOnlyWhenAnimated ==
    calc.op = "css" =>
        /\ (calc.out.extra # {}) <=> (calc.btype \in Animated)
        /\ calc.btype \in Animated =>
              /\ \E r \in calc.out.extra : r.rule = "keyframes"
              /\ \E r \in calc.out.extra :
                    r.rule = "class" /\ r.name = calc.out.cls
        /\ calc.btype = "none" =>
              BorderDecls(calc.out) = {Decl("border", <<"none">>)}
        /\ calc.btype = "zigzag" =>
              /\ BorderDecls(calc.out) =
                    {Decl("border", <<"3px", "solid">> \o Safe(calc.c1))}
              /\ (\A i \in DOMAIN calc.c1 : calc.c1[i] # "\"") =>
                    BorderDecls(calc.out) =
                        {Decl("border", <<"3px", "solid">> \o calc.c1)}

C16_Witness ==
    /\ calc.op = "css"
    /\ calc.btype = "zigzag"
    /\ calc.c1 = <<"#", "a">>
    /\ calc.out.extra = {}
    /\ Decl("border", <<"3px", "solid", "#", "a">>) \in calc.out.inline

(***************************************************************************)
(* Properties of the card composition                                      *)
(***************************************************************************)
CardDone == calc.op = "card"

\* The number of lines of a text: none for the empty text.
TextLines(t) ==
    IF t = <<>> THEN 0 ELSE Cardinality({i \in DOMAIN t : t[i] = "\n"}) + 1

\* The lines of the long-text fields of a template of family f.
TotalLines(f, tpl) ==
    TextLines(tpl.descricao) + TextLines(tpl.efeito)
       + (IF f = "item" THEN TextLines(tpl.bonus) ELSE 0)

\* The newline characters of the long texts an item card displays.
ShownNewlines(tpl, cat) ==
    LET n(t) == Cardinality({i \in DOMAIN t : t[i] = "\n"})
    IN  n(IF tpl.descricao # <<>> THEN tpl.descricao ELSE cat)
          + n(tpl.efeito) + n(tpl.bonus)

\* The templates that differ from the composed one in long texts only.
Rewritten ==
    {[calc.tpl EXCEPT !.descricao = d, !.efeito = e, !.bonus = b] :
        d \in HeightTexts, e \in HeightEffects,
        b \in IF fam = "item" THEN HeightBonus ELSE {calc.tpl.bonus}}

HeightInRange(f, h) ==
    IF f = "item" THEN h >= 820 /\ h <= 1400 ELSE h >= 500 /\ h <= 2000

\* C17 (as amended): every suggested height lies within the family's range
\* (item 820..1400, skill 500..2000).  In the skill family a template with
\* strictly more lines in its long-text fields, and otherwise identical,
\* gets a height at least as large.  In the item family the height is
\* non-decreasing in the number of newline characters of the long texts
\* displayed, the catalog description standing in for an empty descricao.
C17_HeightMonotoneInShownText ==
    CardDone =>
        /\ HeightInRange(fam, calc.out.height)
        /\ \A t2 \in Rewritten :
              (IF fam = "item"
               THEN ShownNewlines(t2, calc.cat)
                       >= ShownNewlines(calc.tpl, calc.cat)
               ELSE TotalLines(fam, t2) > TotalLines(fam, calc.tpl))
                 => CardHeight(fam, t2, calc.cat) >= calc.out.height

C17_Witness ==
    /\ CardDone
    /\ fam = "item"
    /\ calc.tpl.descricao = LinesText(MaxLines)
    /\ calc.tpl.efeito = <<>>
    /\ calc.tpl.bonus = <<>>
    /\ calc.out.height = 1400
    /\ CardHeight(fam, [calc.tpl EXCEPT !.descricao = LinesText(3)], calc.cat)
          = 882

\* C17 (as stated): a template with strictly more lines in its long-text
\* fields, and otherwise identical, gets a height at least as large, in
\* both families, and every height lies within the family's range.
C17_HeightMonotoneInLines ==
    CardDone =>
        /\ HeightInRange(fam, calc.out.height)
        /\ \A t2 \in Rewritten :
              TotalLines(fam, t2) > TotalLines(fam, calc.tpl)
                 => CardHeight(fam, t2, calc.cat) >= calc.out.height

Clamp(x, lo, hi) == IF x < lo THEN lo ELSE IF x > hi THEN hi ELSE x

References ==
    {<<EscapeChar("&"), "&">>, <<EscapeChar("<"), "<">>,
     <<EscapeChar(">"), ">">>, <<EscapeChar("\""), "\"">>,
     <<EscapeChar("'"), "'">>}

StartsWith(d, p) == Len(d) >= Len(p) /\ SubSeq(d, 1, Len(p)) = p

\* The text a browser shows for a fragment of a document: a line break for
\* <br>, the character for a character reference, a space for a newline;
\* it stops with MARKUP at any other '<', '>' or '&'.
RECURSIVE Shown(_)
Shown(d) ==
    IF d = <<>> THEN <<>>
    ELSE IF StartsWith(d, <<"<", "b", "r", ">">>)
         THEN <<"\n">> \o Shown(SubSeq(d, 5, Len(d)))
    ELSE IF \E r \in References : StartsWith(d, r[1])
         THEN LET r == CHOOSE x \in References : StartsWith(d, x[1])
              IN  <<r[2]>> \o Shown(SubSeq(d, Len(r[1]) + 1, Len(d)))
    ELSE IF d[1] \in {"<", ">", "&"} THEN <<"MARKUP">>
    ELSE IF d[1] = "\n" THEN <<" ">> \o Shown(Tail(d))
    ELSE <<d[1]>> \o Shown(Tail(d))

\* A long text as the family shows it: the item family leaves out a final
\* newline.
AsShown(f, t) ==
    IF f = "item" /\ t # <<>> /\ t[Len(t)] = "\n"
    THEN SubSeq(t, 1, Len(t) - 1) ELSE t

\* C19 (as amended): every text of a card is HTML-escaped, so the browser
\* shows the stored characters and no stored '<', '>' or '&' is markup; in
\* the long texts (and the catalog description) every newline is a line
\* break, except that the item family drops a final newline of a text.
C19_TextsEscaped ==
    CardDone =>
        /\ Shown(calc.out.title) \in {calc.tpl.title, calc.name}
        /\ Shown(calc.out.rank) = calc.tpl.rank
        /\ Shown(calc.out.efeito) = AsShown(fam, calc.tpl.efeito)
        /\ fam = "item" => Shown(calc.out.bonus) = AsShown(fam, calc.tpl.bonus)
        /\ Shown(calc.out.desc) \in {AsShown(fam, calc.tpl.descricao),
                                      AsShown(fam, calc.cat)}

C19_Witness ==
    /\ CardDone
    /\ fam = "skill"
    /\ calc.tpl.descricao = <<"<", "\n", "&">>
    /\ calc.out.desc = <<"&", "l", "t", ";", "<", "b", "r", ">",
                         "&", "a", "m", "p", ";">>

\* C19 (as stated): in both families every text is escaped and each of its
\* newlines is a line break.
C19_EveryNewlineBreaks ==
    CardDone =>
        /\ Shown(calc.out.title) \in {calc.tpl.title, calc.name}
        /\ Shown(calc.out.rank) = calc.tpl.rank
        /\ Shown(calc.out.efeito) = calc.tpl.efeito
        /\ fam = "item" => Shown(calc.out.bonus) = calc.tpl.bonus
        /\ Shown(calc.out.desc) \in {calc.tpl.descricao, calc.cat}

\* C20: the card shows the template's title when it is not empty and the
\* entity's name otherwise, and the template's description when it is not
\* empty and the catalog description otherwise.
C20_FieldResolution ==
    CardDone =>
        /\ Shown(calc.out.title) =
              (IF calc.tpl.title # <<>> THEN calc.tpl.title ELSE calc.name)
        /\ Shown(calc.out.desc) =
              AsShown(fam, IF calc.tpl.descricao # <<>>
                           THEN calc.tpl.descricao ELSE calc.cat)

C20_Witness ==
    /\ CardDone
    /\ calc.tpl.title = <<"<", "&">>
    /\ calc.tpl.descricao = <<>>
    /\ calc.cat = <<"c", "\n", "<">>
    /\ Shown(calc.out.title) = <<"<", "&">>
    /\ Shown(calc.out.desc) = <<"c", "\n", "<">>

(***************************************************************************)
(* Properties of the icon                                                  *)
(***************************************************************************)
IconDone == calc.op = "icon"

\* The extension of a file name: what follows its last dot, lowered; the
\* name is taken without surrounding blanks.
ExtensionOf(name) ==
    LET s == StrStrip(name)
        dots == {i \in DOMAIN s : s[i] = "."}
    IN  IF dots = {} THEN <<"(none)">>
        ELSE StrLower(SubSeq(s, (CHOOSE i \in dots : \A j \in dots : i >= j) + 1,
                             Len(s)))

\* C21: the icon is the placeholder exactly when no blob is stored (NULL or
\* empty) or encoding it raises; otherwise it is a data URI whose type
\* follows the extension of the file name in any case: jpg and jpeg give
\* image/jpeg, gif image/gif, webp image/webp, anything else image/png.
C21_IconNeverFails ==
    IconDone =>
        LET absent == \/ calc.blob.kind = "null"
                      \/ calc.blob.kind = "bytes" /\ calc.blob.bytes = <<>>
            raises == calc.blob.kind = "text"
            ext == ExtensionOf(calc.filename)
        IN  /\ (calc.out.kind = "placeholder") <=> (absent \/ raises)
            /\ calc.out.kind \in {"placeholder", "img"}
            /\ calc.out.kind = "img" =>
                  calc.out.mime =
                     CASE ext \in {<<"j", "p", "g">>, <<"j", "p", "e", "g">>}
                             -> "image/jpeg"
                       [] ext = <<"g", "i", "f">> -> "image/gif"
                       [] ext = <<"w", "e", "b", "p">> -> "image/webp"
                       [] OTHER -> "image/png"

C21_Witness ==
    /\ IconDone
    /\ calc.filename = <<"i", "c", "o", "n", ".", "W", "E", "B", "P">>
    /\ calc.blob.bytes = <<137, 80, 78>>
    /\ calc.out.kind = "img"
    /\ calc.out.mime = "image/webp"
    /\ calc.out.data = <<"i", "V", "B", "O">>

(***************************************************************************)
(* Properties of bootstrap()                                               *)
(***************************************************************************)
BootstrapDone == calc.op = "bootstrap"

\* Every row stored before the call is stored after it with the same
\* values in the columns it had, and no row was added or removed.
RowsKept ==
    /\ Cardinality(store) = Cardinality(calc.before.rows)
    /\ \A r \in calc.before.rows :
          \E r2 \in store : \A col \in calc.before.cols : r2[col] = r[col]

C23_ColumnFailureSwallowed ==
    BootstrapDone =>
        LET table == IF calc.before.cols = NoTable THEN SchemaCols(fam)
                     ELSE calc.before.cols
            missing == DesiredColsOf(fam) \ table
        IN  /\ ~calc.raised
            /\ missing \subseteq calc.attempted
            /\ (missing \ calc.failed) \subseteq cols

C23_Witness ==
    /\ BootstrapDone
    /\ calc.n = 1
    /\ "descricao" \in calc.failed
    /\ "descricao" \notin cols
    /\ "created_at" \notin calc.before.cols
    /\ "created_at" \in cols
    /\ ~calc.raised


(***************************************************************************)
(* Frame properties of the persistence layer                               *)
(***************************************************************************)
\* The rows stored under a natural key other than (t, u).
OtherKeys(rows, t, u) ==
    {r \in rows : ~(r.target_id = t /\ r.target_user_id = u)}

\* C24: a call of upsert_popup for the natural key (t, u) leaves every row
\* stored under another key as it was, adds no row under another key and
\* changes or creates at most one row; the columns of the table change
\* only by bootstrap(), called by main() or, in the skill module, by the
\* first call of any of its operations in the process.
C24_UpsertTouchesOneRow ==
    [][/\ last'.op = "upsert" =>
             /\ OtherKeys(store', last'.t, last'.u)
                   = OtherKeys(store, last'.t, last'.u)
             /\ Cardinality(store' \ store) <= 1
             /\ Cardinality(store \ store') <= 1
             /\ Cardinality(store') >= Cardinality(store)
       /\ cols' # cols =>
             /\ cols' = Bootstrap(cols)
             /\ last' = last \/ (fam = "skill" /\ ~bootstrapped)]_vars

C24_Witness ==
    /\ last.op = "upsert"
    /\ ~last.raised
    /\ ~last.inserted
    /\ \E r \in store : /\ r.id = last.ret
                        /\ r.updated_at = last.now
                        /\ r.created_at < last.now
    /\ \E r \in OtherKeys(store, last.t, last.u) :
          r.target_user_id = last.u /\ r.updated_at < last.now

\* C25: delete_popup(id) removes the row with that id, if there is one, and
\* no other row, so a repeated call or a call with an id that is not stored
\* leaves the store as it was; it raises only where the table does not
\* exist.
C25_DeleteIdempotent ==
    [][last'.op = "delete" =>
          /\ store' = {r \in store : r.id # last'.id}
          /\ (last' # last /\ last'.raised) => cols' = NoTable]_vars

C25_Witness ==
    /\ last.op = "delete"
    /\ ~last.raised
    /\ last.id < nextId
    /\ \A r \in store : r.id # last.id
    /\ store # {}

\* C29: the suggested height is computed from the text displayed: when the
\* template's descricao is empty and the catalog description is shown in
\* its place, the height is the one the card would get with that text as
\* its descricao, and a catalog description with more lines never gives a
\* smaller height, in both families.
C29_HeightFromDisplayedText ==
    (CardDone /\ calc.tpl.descricao = <<>> /\ calc.cat # <<>>) =>
        /\ calc.out.height
              = CardHeight(fam, [calc.tpl EXCEPT !.descricao = calc.cat],
                           <<>>)
        /\ \A c2 \in HeightCatalog :
              TextLines(c2) >= TextLines(calc.cat)
                 => CardHeight(fam, calc.tpl, c2) >= calc.out.height

(***************************************************************************)
(* Properties of the frames of a card document                             *)
(***************************************************************************)
StyleDone == calc.op = "style"

\* The values of all declarations of a compilation: inline and auxiliary.
AllVals(out) ==
    {d.val : d \in out.inline} \cup
    UNION {{d.val : d \in r.body} : r \in out.extra}

HasQuote(v) == \E i \in DOMAIN v : v[i] = "\""

\* The value v holds the colour c with no double quote where c has one and
\* every other character of c in its place.
Carries(v, c) ==
    \E k \in 0..(Len(v) - Len(c)) :
        \A i \in DOMAIN c : /\ v[k + i] # "\""
                            /\ c[i] # "\"" => v[k + i] = c[i]

UsesFirst(btype) == btype \notin {"", "none"}

UsesSecond(btype) == btype \in {"gradient", "flow", "changing"}

QuotesNeutralized(args, out) ==
    /\ \A v \in AllVals(out) : HasQuote(v) => v = <<"\"", "\"">>
    /\ UsesFirst(args.btype) => \E v \in AllVals(out) : Carries(v, args.c1)
    /\ UsesSecond(args.btype) => \E v \in AllVals(out) : Carries(v, args.c2)

\* C27: for every pair of colours given to the border compiler, no double
\* quote of color1 or color2 appears in the inline style or the auxiliary
\* rules it returns (the only double quotes of the text are those of the
\* literal content: "" of the skill family's flow rule), and every other
\* character of the colours appears unchanged, in its place.
C27_ColourQuotesNeutralized ==
    StyleDone => /\ QuotesNeutralized(calc.card, calc.card_out)
                 /\ QuotesNeutralized(calc.img, calc.img_out)

\* A document whose card frame pulses with a first colour that has a double
\* quote and whose icon frame is changing with a second colour that has one.
C27_Witness ==
    /\ StyleDone
    /\ calc.card.btype = "pulse" /\ HasQuote(calc.card.c1)
    /\ calc.img.btype = "changing" /\ HasQuote(calc.img.c2)
    /\ \E v \in AllVals(calc.img_out) : v = <<"c", "'">>

\* C28: within one card document the compilations of the card frame and of
\* the icon frame never emit two @keyframes rules with the same name and
\* different bodies.
C28_NoClashingAnimationRules ==
    StyleDone =>
        \A r1 \in calc.card_out.extra, r2 \in calc.img_out.extra :
            (r1.rule = "keyframes" /\ r2.rule = "keyframes"
                /\ r1.name = r2.name) => r1.body = r2.body

(***************************************************************************)
(* Properties of the character sheet                                       *)
(***************************************************************************)
\* C26: removing a target entity (unlinking a skill from a character,
\* deleting a skill from the catalog, removing an item from an inventory)
\* never changes a popup row: a step that changes the sheet leaves the
\* stored templates as they are, and the templates change only in a step
\* of the explicit delete operation.
C26_TargetRemovalKeepsTemplates ==
    [][/\ sheet' # sheet => store' = store
       /\ store' # store => last'.op = "delete" /\ sheet' = sheet]_vars

\* A template is stored for a skill that was unlinked from its last
\* character (it is in the catalog and no character has it).
C26_Witness ==
    \E r \in store : /\ r.target_id # NULL
                     /\ \E s \in sheet.skills : s.id = r.target_id
                     /\ ~\E l \in sheet.links : l.skill = r.target_id

\* C30: for every linked skill 0 <= uses_current <= uses_max, after any
\* sequence of linking, update_skill_uses with any integer or missing
\* arguments, reset_all_skill_uses, spending and restoring; spending a use
\* of a skill that has none left leaves it at 0, and update_skill_uses on a
\* skill that is not linked to the character changes nothing.
C30_UsesWithinBounds ==
    /\ \A l \in sheet.links :
          0 <= l.uses_current /\ l.uses_current <= l.uses_max
    /\ \A c \in Chars, e \in Ents :
          IF LinkOf(sheet, c, e) = {}
          THEN \A m \in UseArgs, u \in UseArgs :
                  UpdateSkillUses(sheet, c, e, m, u) = sheet
          ELSE \A l \in LinkOf(sheet, c, e), usos \in 0..MaxUses :
                  l.uses_current = 0 =>
                     \A k \in LinkOf(UpdateSkillUses(sheet, c, e, Some(usos),
                                        Some(Max2(0, l.uses_current - 1))),
                                     c, e) : k.uses_current = 0

\* A linked skill has all its uses, at least one, while another link of the
\* sheet has none left of at least one.
C30_Witness ==
    \E l, k \in sheet.links :
        /\ l.uses_max >= 1 /\ l.uses_current = l.uses_max
        /\ k.uses_max >= 1 /\ k.uses_current = 0

=============================================================================
